---------------------------- MODULE Spec2Model ----------------------------
(***************************************************************************)
(* A model of the school administration REST API (Express + Mongoose).     *)
(* The entity store is the only shared state; every request handler is an  *)
(* action over it.  Each resource family has its own specification over    *)
(* the same variables, so that the families can be checked separately.     *)
(***************************************************************************)
EXTENDS Integers, Sequences, FiniteSets, TLC

VARIABLES
    sessions,     \* Session collection: id -> document
    sessProc,     \* in-flight Session saves, one slot per request
    books,        \* Library collection: id -> document
    libResp,      \* last response of the library controller
    marks,        \* ExamMark collection: id -> document
    markResp,     \* outcome of the last ExamMark save
    payments,     \* FeePayment collection: id -> document
    feeStructures,\* FeeStructure collection: set of documents
    now,          \* the server clock (new Date())
    feeResp,      \* last response of the fees controller / FeePayment save
    students,     \* Student collection: id -> profile
    attendance,   \* Attendance collection: id -> document
    attResp,      \* last response of GET /attendance
    notices,      \* Notice collection: id -> document
    noticeResp,  \* last response of GET /notices
    messages,     \* Message collection: id -> document
    msgResp,     \* last response of the messages controller
    userActive,   \* User collection: id -> isActive
    authResp,    \* outcome of the last request to a protected route
    classes,      \* Class collection: the ids of the stored classes
    sections,     \* Section collection: id -> record
    subjects,     \* Subject collection: id -> record
    teachers,     \* Teacher collection: user -> assignedSubjects
    exams,        \* Exam collection: id -> record
    adminResp,   \* outcome of the last class, subject, student or exam request
    pageResp,    \* size and pagination block of the last list response
    issueProc,   \* concurrent issueBook requests: process -> position and loaded document
    receiptNumbers, \* receipt numbers of the stored FeePayments: [month, digits]
    idResp,       \* outcome of the last save that reached an ID generator
    idSaves,     \* saves of new payments made so far in the run
    examProc,    \* create-exam requests in flight, one per process
    assignedClasses, \* Teacher record -> its assignedClasses array
    classTeacher, \* class -> classTeacher of the Class document
    assignResp,  \* last response of POST /teachers/:id/assign-class
    userAccounts, \* emails of the User documents created through POST /students
    studentRecords, \* Student documents created through POST /students
    enrolResp     \* last response of POST /students

sessVars == <<sessions, sessProc>>
libVars == <<books, libResp>>
markVars == <<marks, markResp>>
feeVars == <<payments, feeStructures, feeResp>>
attVars == <<attendance, attResp>>
noticeVars == <<notices, noticeResp>>
msgVars == <<messages, msgResp>>
authVars == <<userActive, authResp>>
adminVars == <<classes, sections, subjects, teachers, exams, adminResp>>
pageVars == <<pageResp>>
issueVars == <<issueProc>>
idVars == <<receiptNumbers, idResp, idSaves>>
examProcVars == <<examProc>>
teacherVars == <<assignedClasses, classTeacher, assignResp>>
enrolVars == <<userAccounts, studentRecords, enrolResp>>
vars == <<sessions, sessProc, books, libResp, marks, markResp, payments,
          feeStructures, now, feeResp, students, attendance, attResp,
          notices, noticeResp,
          messages, msgResp,
          userActive, authResp,
          classes, sections, subjects, teachers, exams, adminResp,
          pageResp,
          issueProc,
          receiptNumbers, idResp, idSaves,
          examProc,
          assignedClasses, classTeacher, assignResp,
          userAccounts, studentRecords, enrolResp>>

\* Values standing for JavaScript's undefined: an absent reference or string,
\* and an absent number.
Undefined == "undefined"
NoNumber == 0 - 1
NoList == {Undefined}

Max(a, b) == IF a >= b THEN a ELSE b

(***************************************************************************)
(* Users and the seeded directory (seeders/index.js).                      *)
(***************************************************************************)
Users == {"admin", "teacher1", "student1", "student2", "student3", "parent1", "parent2"}

Role(u) ==
    CASE u = "admin" -> "Admin"
      [] u = "teacher1" -> "Teacher"
      [] u \in {"student1", "student2", "student3"} -> "Student"
      [] OTHER -> "Parent"

ClassIds == {"c1", "c2"}
StudentIds == {"S1", "S2", "S3"}

SeededStudents ==
    [s \in StudentIds |->
        CASE s = "S1" -> [user |-> "student1", class |-> "c2", parent |-> "parent1", status |-> "Active"]
          [] s = "S2" -> [user |-> "student2", class |-> "c2", parent |-> "parent2", status |-> "Active"]
          [] OTHER    -> [user |-> "student3", class |-> "c1", parent |-> Undefined, status |-> "Active"]]

(***************************************************************************)
(* Session (academic year): models/Session.js                              *)
(***************************************************************************)
MaxSessions == 2
MaxDate == 1
MaxProcs == 2

SessionIds == 1..MaxSessions
Dates == 0..MaxDate
Procs == 1..MaxProcs

NoSession == [exists |-> FALSE, isActive |-> FALSE, startDate |-> 0, endDate |-> 0]
IdleProc == [pc |-> "idle", id |-> 0, isNew |-> FALSE, isActive |-> FALSE,
             startDate |-> 0, endDate |-> 0, modified |-> {}]

ActiveSessions(store) == {i \in SessionIds : store[i].exists /\ store[i].isActive}

AllSavesCompleted == \A p \in Procs : sessProc[p].pc = "idle"

\* updateMany({_id: {$ne: this._id}}, {isActive: false})
DeactivateOthers(store, id) ==
    [j \in SessionIds |->
        IF j # id /\ store[j].exists THEN [store[j] EXCEPT !.isActive = FALSE]
        ELSE store[j]]

\* first pre('save') hook: "Ensure only one active session at a time"
PreSaveNoDeactivate(store, doc) == store
PreSaveDeactivate(store, doc) ==
    IF doc.isActive /\ "isActive" \in doc.modified
    THEN DeactivateOthers(store, doc.id)
    ELSE store

\* second pre('save') hook: "Validate end date is after start date"
PreSaveDatesOk(doc) == ~(doc.endDate <= doc.startDate)

\* the document write: an insert for a new document, a $set of the modified
\* paths for a loaded one
WriteSession(store, doc) ==
    IF doc.isNew
    THEN [store EXCEPT ![doc.id] = [exists |-> TRUE, isActive |-> doc.isActive,
                                    startDate |-> doc.startDate, endDate |-> doc.endDate]]
    ELSE [store EXCEPT ![doc.id] =
            [exists |-> store[doc.id].exists,
             isActive |-> IF "isActive" \in doc.modified THEN doc.isActive ELSE store[doc.id].isActive,
             startDate |-> IF "startDate" \in doc.modified THEN doc.startDate ELSE store[doc.id].startDate,
             endDate |-> IF "endDate" \in doc.modified THEN doc.endDate ELSE store[doc.id].endDate]]

\* Session.create({...}) / doc.set({...}); doc.save(): the document is built
\* in memory and save() starts
SessionSaveStart(p, id, active, sd, ed) ==
    /\ sessProc[p].pc = "idle"
    /\ ~sessions[id].exists => \A q \in Procs : sessProc[q].id # id
    /\ LET old == sessions[id]
           mods == IF ~old.exists THEN {"isActive", "startDate", "endDate"}
                   ELSE {f \in {"isActive", "startDate", "endDate"} :
                            \/ f = "isActive" /\ active # old.isActive
                            \/ f = "startDate" /\ sd # old.startDate
                            \/ f = "endDate" /\ ed # old.endDate}
       IN sessProc' = [sessProc EXCEPT ![p] =
            [pc |-> "hook", id |-> id, isNew |-> ~old.exists, isActive |-> active,
             startDate |-> sd, endDate |-> ed, modified |-> mods]]
    /\ UNCHANGED sessions

\* the first hook awaits its updateMany
SessionSaveDeactivate(p) ==
    /\ sessProc[p].pc = "hook"
    /\ sessions' = PreSaveDeactivate(sessions, sessProc[p])
    /\ sessProc' = [sessProc EXCEPT ![p].pc = "write"]

\* the second hook, then the write (or the rejection of the save)
SessionSaveWrite(p) ==
    /\ sessProc[p].pc = "write"
    /\ sessions' = IF PreSaveDatesOk(sessProc[p])
                   THEN WriteSession(sessions, sessProc[p])
                   ELSE sessions
    /\ sessProc' = [sessProc EXCEPT ![p] = IdleProc]

(***************************************************************************)
(* Library: models/Library.js and the library controller                   *)
(* (routes/dashboard.js holds the controller's code)                       *)
(***************************************************************************)
MaxBooks == 1
MaxCopies == 3

BookIds == 1..MaxBooks
Isbns == {Undefined, "isbn-A"}
CopyInputs == 0..MaxCopies

NoBook == [exists |-> FALSE, isbn |-> Undefined, totalCopies |-> 0,
           availableCopies |-> 0, isActive |-> FALSE]
NoLibResp == [op |-> "none", book |-> 0, status |-> 0, availBefore |-> 0]

LibReply(op, b, status) ==
    [op |-> op, book |-> b, status |-> status, availBefore |-> books[b].availableCopies]

\* pre('save'): "Validate available copies doesn't exceed total copies"
LibraryPreSaveOk(doc) == ~(doc.availableCopies > doc.totalCopies)

\* schema validators of the two counters (min 1 / min 0)
LibraryCountersValid(total, avail) == total >= 1 /\ avail >= 0

\* Library.findOne({isbn, isActive: true, _id: {$ne: self}})
IsbnTaken(isbn, self) ==
    \E j \in BookIds : j # self /\ books[j].exists /\ books[j].isActive /\ books[j].isbn = isbn

\* POST /library
addBook(b, isbn, totalCopies, userSession) ==
    /\ ~books[b].exists
    /\ IF ~(totalCopies >= 1)
       THEN /\ libResp' = LibReply("add", b, 400)
            /\ UNCHANGED books
       ELSE IF isbn # Undefined /\ IsbnTaken(isbn, 0)
       THEN /\ libResp' = LibReply("add", b, 400)
            /\ UNCHANGED books
       ELSE LET doc == [exists |-> TRUE, isbn |-> isbn, totalCopies |-> totalCopies,
                        availableCopies |-> totalCopies, isActive |-> TRUE]
            IN IF userSession # Undefined
                  /\ LibraryCountersValid(doc.totalCopies, doc.availableCopies)
                  /\ LibraryPreSaveOk(doc)
               THEN /\ books' = [books EXCEPT ![b] = doc]
                    /\ libResp' = LibReply("add", b, 201)
               ELSE /\ libResp' = LibReply("add", b, 500)
                    /\ UNCHANGED books

\* "Calculate new available copies if total copies changed"
StaleAvailableCopies(book, totalCopies) == book.availableCopies
NewAvailableCopies(book, totalCopies) ==
    IF totalCopies # NoNumber /\ totalCopies # book.totalCopies
    THEN Max(0, totalCopies - (book.totalCopies - book.availableCopies))
    ELSE book.availableCopies

\* PUT /library/:id
updateBook(b, isbn, totalCopies) ==
    IF totalCopies # NoNumber /\ ~(totalCopies >= 1)
    THEN /\ libResp' = LibReply("update", b, 400)
         /\ UNCHANGED books
    ELSE IF ~books[b].exists
    THEN /\ libResp' = LibReply("update", b, 404)
         /\ UNCHANGED books
    ELSE IF isbn # Undefined /\ isbn # books[b].isbn /\ IsbnTaken(isbn, b)
    THEN /\ libResp' = LibReply("update", b, 400)
         /\ UNCHANGED books
    ELSE LET avail == NewAvailableCopies(books[b], totalCopies)
             total == IF totalCopies # NoNumber THEN totalCopies ELSE books[b].totalCopies
         IN IF LibraryCountersValid(total, avail)
            THEN /\ books' = [books EXCEPT ![b].isbn = IF isbn # Undefined THEN isbn ELSE @,
                                           ![b].totalCopies = total,
                                           ![b].availableCopies = avail]
                 /\ libResp' = LibReply("update", b, 200)
            ELSE /\ libResp' = LibReply("update", b, 500)
                 /\ UNCHANGED books

\* DELETE /library/:id (soft delete)
deleteBook(b) ==
    IF ~books[b].exists
    THEN /\ libResp' = LibReply("delete", b, 404)
         /\ UNCHANGED books
    ELSE IF books[b].availableCopies < books[b].totalCopies
    THEN /\ libResp' = LibReply("delete", b, 400)
         /\ UNCHANGED books
    ELSE IF LibraryPreSaveOk(books[b])
    THEN /\ books' = [books EXCEPT ![b].isActive = FALSE]
         /\ libResp' = LibReply("delete", b, 200)
    ELSE /\ libResp' = LibReply("delete", b, 500)
         /\ UNCHANGED books

\* the guard of issueBook: "No copies available for issue"
IssueAllowed(book) == ~(book.availableCopies <= 0)

\* POST /library/:id/issue
issueBook(b) ==
    IF ~books[b].exists
    THEN /\ libResp' = LibReply("issue", b, 404)
         /\ UNCHANGED books
    ELSE IF ~IssueAllowed(books[b])
    THEN /\ libResp' = LibReply("issue", b, 400)
         /\ UNCHANGED books
    ELSE LET doc == [books[b] EXCEPT !.availableCopies = @ - 1]
         IN IF LibraryPreSaveOk(doc)
            THEN /\ books' = [books EXCEPT ![b] = doc]
                 /\ libResp' = LibReply("issue", b, 200)
            ELSE /\ libResp' = LibReply("issue", b, 500)
                 /\ UNCHANGED books

\* POST /library/:id/return
returnBook(b) ==
    IF ~books[b].exists
    THEN /\ libResp' = LibReply("return", b, 404)
         /\ UNCHANGED books
    ELSE IF books[b].availableCopies >= books[b].totalCopies
    THEN /\ libResp' = LibReply("return", b, 400)
         /\ UNCHANGED books
    ELSE LET doc == [books[b] EXCEPT !.availableCopies = @ + 1]
         IN IF LibraryPreSaveOk(doc)
            THEN /\ books' = [books EXCEPT ![b] = doc]
                 /\ libResp' = LibReply("return", b, 200)
            ELSE /\ libResp' = LibReply("return", b, 500)
                 /\ UNCHANGED books


\* issueBook as the steps of one request: Library.findById and the guards,
\* then book.save(), which writes the availableCopies computed from the
\* loaded document
IdleIssue == [pc |-> "idle", book |-> 0, availableCopies |-> 0, status |-> 0]

issueBookLoad(p, b) ==
    /\ issueProc[p].pc = "idle"
    /\ issueProc' = [issueProc EXCEPT ![p] =
          IF ~books[b].exists
          THEN [pc |-> "done", book |-> b, availableCopies |-> 0, status |-> 404]
          ELSE IF ~IssueAllowed(books[b])
          THEN [pc |-> "done", book |-> b, availableCopies |-> books[b].availableCopies,
                status |-> 400]
          ELSE [pc |-> "loaded", book |-> b, availableCopies |-> books[b].availableCopies,
                status |-> 0]]
    /\ UNCHANGED books

issueBookSave(p) ==
    /\ issueProc[p].pc = "loaded"
    /\ LET b == issueProc[p].book
           doc == [books[b] EXCEPT !.availableCopies = issueProc[p].availableCopies - 1]
       IN IF LibraryCountersValid(doc.totalCopies, doc.availableCopies) /\ LibraryPreSaveOk(doc)
          THEN /\ books' = [books EXCEPT ![b] = doc]
               /\ issueProc' = [issueProc EXCEPT ![p].pc = "done", ![p].status = 200]
          ELSE /\ issueProc' = [issueProc EXCEPT ![p].pc = "done", ![p].status = 500]
               /\ UNCHANGED books

(***************************************************************************)
(* ExamMark: models/ExamMark.js                                            *)
(* Math.round((marksObtained / totalMarks) * 100) is computed on doubles;  *)
(* for the totals within MaxMarks the double result equals the exact       *)
(* quotient rounded half up, which is what RoundedPercentage computes.     *)
(***************************************************************************)
MaxMarks == 8

MarkIds == {"S1-exam1"}
MarkInputs == (0 - 1)..(MaxMarks + 1)
TotalInputs == 0..MaxMarks
PassingInputs == {0, 1, 4}
Grades == {"A+", "A", "B+", "B", "C+", "C", "D+", "D", "F"}

NoMark == [exists |-> FALSE, marksObtained |-> 0, totalMarks |-> 0, passingMarks |-> 0,
           isAbsent |-> FALSE, percentage |-> 0, grade |-> "F", isPassed |-> FALSE]
NoMarkResp == [op |-> "none", id |-> "none", stored |-> FALSE, aboveTotal |-> FALSE,
               marksSubmitted |-> FALSE, isAbsent |-> FALSE]

\* Math.round(n / d * 100): nearest integer, halves rounded up
TruncatedPercentage(n, d) == (n * 100) \div d
RoundedPercentage(n, d) == (2 * n * 100 + d) \div (2 * d)

\* function calculateGrade(percentage)
calculateGradeNoPlus(percentage) ==
    IF percentage >= 80 THEN "A"
    ELSE IF percentage >= 60 THEN "B"
    ELSE IF percentage >= 40 THEN "C"
    ELSE IF percentage >= 30 THEN "D"
    ELSE "F"
calculateGrade(percentage) ==
    IF percentage >= 90 THEN "A+"
    ELSE IF percentage >= 80 THEN "A"
    ELSE IF percentage >= 70 THEN "B+"
    ELSE IF percentage >= 60 THEN "B"
    ELSE IF percentage >= 50 THEN "C+"
    ELSE IF percentage >= 40 THEN "C"
    ELSE IF percentage >= 35 THEN "D+"
    ELSE IF percentage >= 30 THEN "D"
    ELSE "F"

\* schema validation, run by save() before the pre('save') hooks: the
\* required fields are present and within their min bounds
ExamMarkValid(doc, derivedSupplied) ==
    /\ doc.marksObtained >= 0
    /\ doc.totalMarks >= 1
    /\ doc.passingMarks >= 1
    /\ derivedSupplied

\* first pre('save') hook: "Validate marks obtained is not greater than
\* total marks"
MarksWithinTotal(doc) == ~(doc.marksObtained > doc.totalMarks)

\* second pre('save') hook: "Calculate percentage, grade, and pass status"
DeriveMarkFields(doc) ==
    IF doc.isAbsent
    THEN [doc EXCEPT !.marksObtained = 0, !.percentage = 0, !.grade = "F", !.isPassed = FALSE]
    ELSE LET pct == RoundedPercentage(doc.marksObtained, doc.totalMarks)
         IN [doc EXCEPT !.percentage = pct,
                        !.isPassed = (doc.marksObtained >= doc.passingMarks),
                        !.grade = calculateGrade(pct)]

\* ExamMark.create({...}) or a loaded document that is set and saved
ExamMarkSave(id, marksObtained, totalMarks, passingMarks, isAbsent, derivedSupplied) ==
    LET doc == [exists |-> TRUE, marksObtained |-> marksObtained, totalMarks |-> totalMarks,
                passingMarks |-> passingMarks, isAbsent |-> isAbsent,
                percentage |-> 0, grade |-> "F", isPassed |-> FALSE]
        accepted == ExamMarkValid(doc, derivedSupplied) /\ MarksWithinTotal(doc)
    IN /\ marks' = IF accepted THEN [marks EXCEPT ![id] = DeriveMarkFields(doc)] ELSE marks
       /\ markResp' = [op |-> "save", id |-> id, stored |-> accepted,
                       aboveTotal |-> marksObtained > totalMarks,
                       marksSubmitted |-> marksObtained > 0,
                       isAbsent |-> isAbsent]

(***************************************************************************)
(* Fees: models/FeePayment.js, the FeeStructure schema and the fees        *)
(* controller (controllers/feesController.js)                              *)
(***************************************************************************)
MaxPayments == 1
MaxTime == 1

PaymentIds == 1..MaxPayments
Times == 0..MaxTime
NoDate == 0 - 1
FeeTypeIds == {"F1"}
Amounts == {0, 500, 1000}
Surcharges == {0, 50}
FeeStatuses == {"Paid", "Partial", "Pending", "Overdue", "Cancelled"}

NoPayment == [exists |-> FALSE, student |-> Undefined, feeType |-> Undefined,
              dueAmount |-> 0, paidAmount |-> 0, lateFee |-> 0, discount |-> 0,
              totalAmount |-> 0, dueDate |-> NoDate, paymentDate |-> NoDate,
              status |-> "Pending", updatedAt |-> NoDate]
NoFeeResp == [op |-> "none", user |-> Undefined, status |-> 0, items |-> {}, total |-> 0,
              studentFound |-> FALSE, structureAmount |-> NoNumber, alreadyPaid |-> FALSE,
              amount |-> 0, lateFee |-> 0, discount |-> 0, id |-> 0]

\* the status rule, as written in the pre('save') hook and in the
\* paymentStatus virtual; t is the value of new Date()
NeverOverdueStatus(paidAmount, dueAmount, dueDate, t) ==
    IF paidAmount >= dueAmount THEN "Paid"
    ELSE IF paidAmount > 0 THEN "Partial"
    ELSE "Pending"
FeeStatusRule(paidAmount, dueAmount, dueDate, t) ==
    IF paidAmount >= dueAmount THEN "Paid"
    ELSE IF paidAmount > 0 THEN "Partial"
    ELSE IF dueDate # NoDate /\ t > dueDate THEN "Overdue"
    ELSE "Pending"

\* virtual('paymentStatus'), evaluated when the document is read
paymentStatus(doc) == FeeStatusRule(doc.paidAmount, doc.dueAmount, doc.dueDate, now)

\* schema validation of a FeePayment, run by save() before the pre('save')
\* hook: required fields and min bounds
FeePaymentValid(doc) ==
    /\ doc.student # Undefined
    /\ doc.feeStructure # Undefined
    /\ doc.feeType # Undefined
    /\ doc.year # NoNumber
    /\ doc.dueAmount # NoNumber /\ doc.dueAmount >= 0
    /\ doc.paidAmount # NoNumber /\ doc.paidAmount >= 0
    /\ doc.lateFee >= 0
    /\ doc.discount >= 0
    /\ doc.totalAmount # NoNumber /\ doc.totalAmount >= 0
    /\ doc.paymentMethod # Undefined
    /\ doc.collectedBy # Undefined
    /\ doc.session # Undefined

\* pre('save'): "Calculate total amount" and "Update status based on payment"
\* (the receipt number it also generates is not modelled here)
FeePaymentPreSave(doc) ==
    [exists |-> TRUE, student |-> doc.student, feeType |-> doc.feeType,
     dueAmount |-> doc.dueAmount, paidAmount |-> doc.paidAmount,
     lateFee |-> doc.lateFee, discount |-> doc.discount,
     totalAmount |-> doc.paidAmount + doc.lateFee - doc.discount,
     dueDate |-> doc.dueDate, paymentDate |-> doc.paymentDate,
     status |-> FeeStatusRule(doc.paidAmount, doc.dueAmount, doc.dueDate, now),
     updatedAt |-> now]

\* FeePayment.create(doc) / doc.save(): TRUE iff the document is stored
FeePaymentStore(id, doc) ==
    IF FeePaymentValid(doc)
    THEN payments' = [payments EXCEPT ![id] = FeePaymentPreSave(doc)]
    ELSE UNCHANGED payments

\* a FeePayment document with every required field, created or re-saved
\* through the model
FeePaymentSave(id, student, dueAmount, paidAmount, lateFee, discount, dueDate, status) ==
    LET doc == [student |-> student, feeStructure |-> "structure", feeType |-> "F1",
                year |-> 2024, dueAmount |-> dueAmount, paidAmount |-> paidAmount,
                lateFee |-> lateFee, discount |-> discount,
                totalAmount |-> paidAmount + lateFee,
                dueDate |-> dueDate,
                paymentDate |-> IF payments[id].exists THEN payments[id].paymentDate ELSE now,
                paymentMethod |-> "Cash", collectedBy |-> "admin", session |-> "session",
                status |-> status]
    IN /\ FeePaymentStore(id, doc)
       /\ feeResp' = [NoFeeResp EXCEPT !.op = "save", !.id = id, !.lateFee = lateFee,
                         !.status = IF FeePaymentValid(doc) THEN 201 ELSE 500]
       /\ UNCHANGED feeStructures

\* the server clock advances
Tick ==
    /\ now < MaxTime
    /\ now' = now + 1

\* POST /fees/structures
createFeeStructure(classId, feeType, amount, dueDate, session) ==
    /\ IF \E fs \in feeStructures : fs.class = classId /\ fs.feeType = feeType
       THEN /\ feeResp' = [NoFeeResp EXCEPT !.op = "structure", !.status = 400]
            /\ UNCHANGED feeStructures
       ELSE IF session = Undefined \/ ~(amount >= 0)
       THEN /\ feeResp' = [NoFeeResp EXCEPT !.op = "structure", !.status = 500]
            /\ UNCHANGED feeStructures
       ELSE /\ feeStructures' = feeStructures \cup
                   {[class |-> classId, feeType |-> feeType, amount |-> amount, dueDate |-> dueDate]}
            /\ feeResp' = [NoFeeResp EXCEPT !.op = "structure", !.status = 201]
    /\ UNCHANGED payments

\* FeeStructure.findOne({class, feeType, status: 'Active'}): the schema has
\* no status path, so the filter is dropped under strictQuery and matches
\* no document otherwise
FindFeeStructure(classId, feeType, strictQuery) ==
    IF strictQuery
    THEN {fs \in feeStructures : fs.class = classId /\ fs.feeType = feeType}
    ELSE {}

\* FeePayment.findOne({student, feeType, status: 'Paid'})
PaidPaymentExists(studentId, feeType) ==
    \E i \in PaymentIds : /\ payments[i].exists
                          /\ payments[i].student = studentId
                          /\ payments[i].feeType = feeType
                          /\ payments[i].status = "Paid"

\* the amount of the fee structure of the student's class for the fee type,
\* as reported back with the response
StructureAmountFor(studentId, feeType) ==
    IF studentId \in StudentIds
       /\ \E fs \in feeStructures : fs.class = students[studentId].class /\ fs.feeType = feeType
    THEN (CHOOSE fs \in feeStructures :
             fs.class = students[studentId].class /\ fs.feeType = feeType).amount
    ELSE NoNumber

\* POST /fees/payments
recordFeePayment(id, user, studentId, feeType, amount, lateFee, discount, strictQuery) ==
    LET reply(code) == [NoFeeResp EXCEPT !.op = "record", !.user = user, !.status = code,
                           !.studentFound = (studentId \in StudentIds),
                           !.structureAmount = StructureAmountFor(studentId, feeType),
                           !.alreadyPaid = PaidPaymentExists(studentId, feeType),
                           !.amount = amount, !.lateFee = lateFee, !.discount = discount,
                           !.id = id]
    IN /\ UNCHANGED feeStructures
       /\ IF amount = NoNumber
          THEN /\ feeResp' = reply(400)
               /\ UNCHANGED payments
          ELSE IF studentId \notin StudentIds
          THEN /\ feeResp' = reply(404)
               /\ UNCHANGED payments
          ELSE IF FindFeeStructure(students[studentId].class, feeType, strictQuery) = {}
          THEN /\ feeResp' = reply(404)
               /\ UNCHANGED payments
          ELSE IF PaidPaymentExists(studentId, feeType)
          THEN /\ feeResp' = reply(400)
               /\ UNCHANGED payments
          ELSE LET feeStructure == CHOOSE fs \in FindFeeStructure(students[studentId].class, feeType, strictQuery) : TRUE
                   baseAmount == IF amount # 0 THEN amount ELSE feeStructure.amount
                   lateFeeAmount == IF lateFee # NoNumber THEN lateFee ELSE 0
                   discountAmount == IF discount # NoNumber THEN discount ELSE 0
                   totalAmount == baseAmount + lateFeeAmount - discountAmount
                   \* 'amount' is not a path of the schema and is dropped
                   doc == [student |-> studentId, feeStructure |-> Undefined, feeType |-> feeType,
                           year |-> NoNumber, dueAmount |-> NoNumber, paidAmount |-> NoNumber,
                           lateFee |-> lateFeeAmount, discount |-> discountAmount,
                           totalAmount |-> totalAmount, dueDate |-> NoDate, paymentDate |-> now,
                           paymentMethod |-> "Cash", collectedBy |-> user, session |-> Undefined,
                           status |-> "Paid"]
               IN /\ ~payments[id].exists
                  /\ FeePaymentStore(id, doc)
                  /\ feeResp' = reply(IF FeePaymentValid(doc) THEN 201 ELSE 500)

(***************************************************************************)
(* List queries: sort, skip and limit                                      *)
(***************************************************************************)
DefaultLimit == 10

\* .limit(limit * 1).skip((page - 1) * limit)
PageOf(sq, page, limit) ==
    {sq[k] : k \in {k \in DOMAIN sq : k > (page - 1) * limit /\ k <= (page - 1) * limit + limit}}

\* Student.findOne({user}) / Student.find({parent}) / Student.find({class})
StudentsOfUser(u) == {st \in StudentIds : students[st].user = u}
ChildrenOf(u) == {st \in StudentIds : students[st].parent = u}
StudentsOfClass(c) == {st \in StudentIds : students[st].class = c}

\* Teacher.findOne({user}).assignedClasses: the seeded teachers have none
AssignedClasses(u) == {}

(***************************************************************************)
(* Fee payment listing: controllers/feesController.js, getFeePayments      *)
(***************************************************************************)
\* "Role-based filtering" of getFeePayments
FeeRoleScope(u) ==
    IF Role(u) = "Student" /\ StudentsOfUser(u) # {} THEN StudentsOfUser(u)
    ELSE IF Role(u) = "Parent" /\ ChildrenOf(u) # {} THEN ChildrenOf(u)
    ELSE StudentIds

\* "Apply filters" and "Date filtering"
FeePaymentQuery(u, studentId, classId, feeType, status, startDate, endDate) ==
    [student |-> IF classId # Undefined THEN StudentsOfClass(classId)
                 ELSE IF studentId # Undefined THEN {studentId}
                 ELSE FeeRoleScope(u),
     feeType |-> IF feeType # Undefined THEN {feeType} ELSE FeeTypeIds,
     status |-> IF status # Undefined THEN {status} ELSE FeeStatuses,
     dates |-> IF startDate # NoDate /\ endDate # NoDate
               THEN {d \in Times : d >= startDate /\ d <= endDate}
               ELSE Times]

\* FeePayment.find(query)
FeePaymentsMatching(q) ==
    {i \in PaymentIds : /\ payments[i].exists
                        /\ payments[i].student \in q.student
                        /\ payments[i].feeType \in q.feeType
                        /\ payments[i].status \in q.status
                        /\ payments[i].paymentDate \in q.dates}

\* .sort({paymentDate: -1})
FeePaymentBefore(a, b) == payments[a].paymentDate > payments[b].paymentDate

\* the orders the sort can produce: records with equal paymentDate come in
\* either order
FeePaymentOrderings(S) ==
    {sq \in [1..Cardinality(S) -> S] :
        \A i, j \in 1..Cardinality(S) :
            i < j => (sq[i] # sq[j] /\ ~FeePaymentBefore(sq[j], sq[i]))}

\* GET /fees/payments
getFeePayments(u, page, limit, studentId, classId, feeType, status, startDate, endDate) ==
    LET q == FeePaymentQuery(u, studentId, classId, feeType, status, startDate, endDate)
        found == FeePaymentsMatching(q)
        lim == IF limit = NoNumber THEN DefaultLimit ELSE limit
    IN /\ \E sq \in FeePaymentOrderings(found) :
            feeResp' = [NoFeeResp EXCEPT !.op = "list", !.user = u, !.status = 200,
                           !.items = {[id |-> i, student |-> payments[i].student] :
                                          i \in PageOf(sq, page, lim)},
                           !.total = Cardinality(found)]
       /\ UNCHANGED <<payments, feeStructures>>

(***************************************************************************)
(* Attendance: the Attendance schema (unnamed/part_008) and                *)
(* controllers/attendanceController.js                                     *)
(***************************************************************************)
MaxAttendance == 2

AttendanceIds == 1..MaxAttendance
AttendanceStatuses == {"Present", "Absent"}
Days == 0..1

NoAttendance == [exists |-> FALSE, student |-> Undefined, class |-> Undefined,
                 date |-> NoDate, status |-> Undefined]
NoAttResp == [op |-> "none", user |-> Undefined, items |-> {}, total |-> 0, status |-> 0,
              requested |-> 0, priorMarking |-> FALSE, wellFormed |-> FALSE]

\* Attendance.create({...}): a new document; the unique index on
\* (student, date) turns a duplicate down
AttendanceCreate(id, student, classId, date, status) ==
    /\ ~attendance[id].exists
    /\ \A j \in AttendanceIds : j < id => attendance[j].exists
    /\ ~\E j \in AttendanceIds : /\ attendance[j].exists
                                 /\ attendance[j].student = student
                                 /\ attendance[j].date = date
    /\ attendance' = [attendance EXCEPT ![id] =
            [exists |-> TRUE, student |-> student, class |-> classId,
             date |-> date, status |-> status]]
    /\ attResp' = [NoAttResp EXCEPT !.op = "create"]

AttendanceRoleScope(u) ==
    [student |->
        IF Role(u) = "Student" /\ StudentsOfUser(u) # {} THEN StudentsOfUser(u)
        ELSE IF Role(u) = "Parent" /\ ChildrenOf(u) # {} THEN ChildrenOf(u)
        ELSE StudentIds,
     class |->
        IF Role(u) = "Teacher" THEN AssignedClasses(u) ELSE ClassIds]

\* "Apply filters": each supplied filter is assigned to its query key
AttendanceQuery(u, classId, studentId, status, date, startDate, endDate) ==
    LET scope == AttendanceRoleScope(u)
    IN [student |-> IF studentId # Undefined THEN {studentId} ELSE scope.student,
        class |-> IF classId # Undefined THEN {classId} ELSE scope.class,
        status |-> IF status # Undefined THEN {status} ELSE AttendanceStatuses,
        days |-> IF date # NoDate THEN {date}
                 ELSE IF startDate # NoDate /\ endDate # NoDate
                      THEN {d \in Days : d >= startDate /\ d <= endDate}
                 ELSE Days]

\* Attendance.find(query)
AttendanceMatching(q) ==
    {i \in AttendanceIds : /\ attendance[i].exists
                           /\ attendance[i].student \in q.student
                           /\ attendance[i].class \in q.class
                           /\ attendance[i].status \in q.status
                           /\ attendance[i].date \in q.days}

\* .sort({date: -1, createdAt: -1})
AttendanceBefore(a, b) ==
    \/ attendance[a].date > attendance[b].date
    \/ attendance[a].date = attendance[b].date /\ a > b

\* the matching records in the order of the sort
AttendanceSorted(S) ==
    CHOOSE sq \in [1..Cardinality(S) -> S] :
        \A i, j \in 1..Cardinality(S) :
            i < j => (sq[i] # sq[j] /\ AttendanceBefore(sq[i], sq[j]))

\* GET /attendance
getAttendance(u, page, limit, classId, studentId, status, date, startDate, endDate) ==
    LET q == AttendanceQuery(u, classId, studentId, status, date, startDate, endDate)
        found == AttendanceMatching(q)
        lim == IF limit = NoNumber THEN DefaultLimit ELSE limit
        pageIds == PageOf(AttendanceSorted(found), page, lim)
    IN /\ attResp' = [NoAttResp EXCEPT !.op = "list", !.user = u, !.status = 200,
                      !.items = {[id |-> i, student |-> attendance[i].student] : i \in pageIds},
                      !.total = Cardinality(found)]
       /\ UNCHANGED attendance

\* the check of markAttendance: "Check if attendance already marked for this
\* date".  Attendance has no subject path: a subject in the filter is
\* dropped when the build strips unknown filter keys and matches no
\* document when it keeps them
AttendanceAlreadyMarked(classId, subjectId, date, strictQuery) ==
    \E i \in AttendanceIds : /\ attendance[i].exists
                             /\ attendance[i].class = classId
                             /\ attendance[i].date = date
                             /\ subjectId # Undefined => strictQuery

\* "Validate all students belong to the specified class/section"
StudentsBelongToClass(data, classId) ==
    \A st \in DOMAIN data : /\ st \in StudentIds
                            /\ students[st].class = classId
                            /\ students[st].status = "Active"

\* the documents markAttendance hands to insertMany: no session is set
MarkedRecord(st, classId, date, status, u) ==
    [student |-> st, class |-> classId, date |-> date, status |-> status,
     markedBy |-> u, session |-> Undefined]

\* schema validation of an Attendance document, run by insertMany
AttendanceValid(doc) ==
    /\ doc.student # Undefined
    /\ doc.class # Undefined
    /\ doc.date # NoDate
    /\ doc.status \in {"Present", "Absent", "Late", "Excused"}
    /\ doc.markedBy # Undefined
    /\ doc.session # Undefined

\* the unique index on (student, date)
AttendanceIndexFree(st, date) ==
    ~\E i \in AttendanceIds : /\ attendance[i].exists
                             /\ attendance[i].student = st
                             /\ attendance[i].date = date

\* POST /attendance/mark; data maps each student of attendanceData to the
\* submitted status
markAttendance(u, classId, subjectId, date, data, strictQuery) ==
    LET reply(code, n) ==
            [NoAttResp EXCEPT !.op = "mark", !.user = u, !.status = code, !.total = n,
                              !.requested = Cardinality(DOMAIN data),
                              !.priorMarking = \E i \in AttendanceIds :
                                                  /\ attendance[i].exists
                                                  /\ attendance[i].class = classId
                                                  /\ attendance[i].date = date,
                              !.wellFormed = /\ date <= now
                                             /\ StudentsBelongToClass(data, classId)]
        docs == [st \in DOMAIN data |-> MarkedRecord(st, classId, date, data[st], u)]
        free == {i \in AttendanceIds : ~attendance[i].exists}
    IN IF DOMAIN data = {}
       THEN /\ attResp' = reply(400, 0)
            /\ UNCHANGED attendance
       ELSE IF date > now
       THEN /\ attResp' = reply(400, 0)
            /\ UNCHANGED attendance
       ELSE IF AttendanceAlreadyMarked(classId, subjectId, date, strictQuery)
       THEN /\ attResp' = reply(400, 0)
            /\ UNCHANGED attendance
       ELSE IF ~StudentsBelongToClass(data, classId)
       THEN /\ attResp' = reply(400, 0)
            /\ UNCHANGED attendance
       ELSE IF \E st \in DOMAIN data : ~AttendanceValid(docs[st]) \/ ~AttendanceIndexFree(st, date)
       THEN /\ attResp' = reply(500, 0)
            /\ UNCHANGED attendance
       ELSE /\ Cardinality(free) >= Cardinality(DOMAIN data)
            /\ \E slot \in [DOMAIN data -> free] :
                  /\ \A a, b \in DOMAIN data : a # b => slot[a] # slot[b]
                  /\ attendance' = [i \in AttendanceIds |->
                        IF \E st \in DOMAIN data : slot[st] = i
                        THEN LET st == CHOOSE x \in DOMAIN data : slot[x] = i
                             IN [exists |-> TRUE, student |-> st, class |-> classId,
                                 date |-> date, status |-> data[st]]
                        ELSE attendance[i]]
            /\ attResp' = reply(201, Cardinality(DOMAIN data))

\* PUT /attendance/:id; the handler does not read validationResult, so a
\* status outside the enum reaches findByIdAndUpdate and fails its validator.
\* assigned: for a Teacher, whether the Teacher record lists the class of the
\* attendance record (a Teacher user without Teacher record is not checked)
updateAttendance(u, id, status, assigned) ==
    LET reply(code) == [NoAttResp EXCEPT !.op = "update", !.user = u, !.status = code]
    IN IF id \notin AttendanceIds \/ ~attendance[id].exists
       THEN /\ attResp' = reply(404)
            /\ UNCHANGED attendance
       ELSE IF Role(u) = "Teacher" /\ ~assigned
       THEN /\ attResp' = reply(403)
            /\ UNCHANGED attendance
       ELSE IF status \notin {"Present", "Absent", "Late", "Excused"}
       THEN /\ attResp' = reply(500)
            /\ UNCHANGED attendance
       ELSE /\ attendance' = [attendance EXCEPT ![id].status = status]
            /\ attResp' = reply(200)

(***************************************************************************)
(* Notices: the Notice model (unnamed/part_009) and the notices            *)
(* controller (unnamed/part_006)                                           *)
(***************************************************************************)
MaxNotices == 1

NoticeIds == 1..MaxNotices
Audiences == {"All", "Students", "Teachers", "Parents", "Admin"}
ForUserLimit == 50

NoNotice == [exists |-> FALSE, targetAudience |-> {}, targetClasses |-> {},
             publishDate |-> NoDate, expiryDate |-> NoDate, isPublished |-> FALSE,
             isPinned |-> FALSE, isActive |-> FALSE, viewedBy |-> {}]
NoNoticeResp == [op |-> "none", user |-> Undefined, status |-> 0, items |-> {}, total |-> 0,
                 page |-> NoNumber, limit |-> NoNumber, includeExpired |-> FALSE,
                 pinnedOnly |-> FALSE]

\* schema validation of a Notice: session and createdBy are required and
\* every targetAudience entry is one of the enum values
NoticeValid(doc, session) ==
    /\ session # Undefined
    /\ doc.targetAudience \subseteq Audiences

\* POST /notices
createNotice(id, targetAudience, targetClasses, publishDate, expiryDate, hasIsPublished, isPublished, isPinned, userSession) ==
    LET doc == [exists |-> TRUE,
                targetAudience |-> IF targetAudience = NoList THEN {"All"} ELSE targetAudience,
                targetClasses |-> IF targetClasses = NoList THEN {} ELSE targetClasses,
                publishDate |-> IF publishDate # NoDate THEN publishDate ELSE now,
                expiryDate |-> expiryDate,
                isPublished |-> IF hasIsPublished THEN isPublished ELSE TRUE,
                isPinned |-> isPinned,
                isActive |-> TRUE,
                viewedBy |-> {}]
    IN /\ ~notices[id].exists
       /\ \A j \in NoticeIds : j < id => notices[j].exists
       /\ IF NoticeValid(doc, userSession)
          THEN /\ notices' = [notices EXCEPT ![id] = doc]
               /\ noticeResp' = [NoNoticeResp EXCEPT !.op = "create", !.status = 201]
          ELSE /\ noticeResp' = [NoNoticeResp EXCEPT !.op = "create", !.status = 500]
               /\ UNCHANGED notices

\* DELETE /notices/:id: "Soft delete"
deleteNotice(id) ==
    IF notices[id].exists
    THEN /\ notices' = [notices EXCEPT ![id].isActive = FALSE]
         /\ noticeResp' = [NoNoticeResp EXCEPT !.op = "delete", !.status = 200]
    ELSE /\ noticeResp' = [NoNoticeResp EXCEPT !.op = "delete", !.status = 404]
         /\ UNCHANGED notices

\* PUT /notices/:id/pin
togglePin(id) ==
    IF notices[id].exists
    THEN /\ notices' = [notices EXCEPT ![id].isPinned = ~notices[id].isPinned]
         /\ noticeResp' = [NoNoticeResp EXCEPT !.op = "pin", !.status = 200]
    ELSE /\ noticeResp' = [NoNoticeResp EXCEPT !.op = "pin", !.status = 404]
         /\ UNCHANGED notices

\* $or: [{expiryDate: {$exists: false}}, {expiryDate: null}, {expiryDate: {$gt: new Date()}}]
NotExpired(n) == n.expiryDate = NoDate \/ n.expiryDate > now

\* the query of Notice.getForUser, also rebuilt by getNotices for its count
ForUserMatches(n, userRole, userClasses, includeExpired) ==
    /\ n.exists
    /\ n.isPublished
    /\ n.isActive
    /\ n.publishDate <= now
    /\ includeExpired \/ NotExpired(n)
    /\ "All" \in n.targetAudience \/ userRole \in n.targetAudience
    /\ userClasses # {} =>
          (n.targetClasses = {} \/ n.targetClasses \cap userClasses # {})

\* the query of Notice.getPinned
PinnedMatches(n) ==
    /\ n.exists
    /\ n.isPinned
    /\ n.isPublished
    /\ n.isActive
    /\ NotExpired(n)


\* sortOrder = {isPinned: -1, publishDate: -1}
ForUserBefore(a, b) ==
    \/ notices[a].isPinned /\ ~notices[b].isPinned
    \/ notices[a].isPinned = notices[b].isPinned /\ notices[a].publishDate > notices[b].publishDate

\* the orders the sort can produce: notices with equal keys come in either
\* order
ForUserOrderings(S) ==
    {sq \in [1..Cardinality(S) -> S] :
        \A i, j \in 1..Cardinality(S) :
            i < j => (sq[i] # sq[j] /\ ~ForUserBefore(sq[j], sq[i]))}

\* "Get user's classes if they are a student"
UserClasses(u) ==
    IF Role(u) = "Student" THEN {students[st].class : st \in StudentsOfUser(u)} ELSE {}

NoticeItems(ids) == {[id |-> i, targetAudience |-> notices[i].targetAudience] : i \in ids}

\* GET /notices
getNotices(u, page, limit, targetAudience, includeExpired, pinnedOnly) ==
    LET lim == IF limit = NoNumber THEN DefaultLimit ELSE limit
        pinned == {i \in NoticeIds : PinnedMatches(notices[i])}
        forUser == {i \in NoticeIds :
                        ForUserMatches(notices[i], Role(u), UserClasses(u), includeExpired)}
        counted == {i \in forUser :
                        targetAudience # Undefined => targetAudience \in notices[i].targetAudience}
        reply == [NoNoticeResp EXCEPT !.op = "list", !.user = u, !.status = 200,
                                      !.page = page, !.limit = limit,
                                      !.includeExpired = includeExpired,
                                      !.pinnedOnly = pinnedOnly]
    IN /\ IF pinnedOnly
          THEN noticeResp' = [reply EXCEPT !.items = NoticeItems(pinned),
                                           !.total = Cardinality(pinned)]
          ELSE \E sq \in ForUserOrderings(forUser) :
                  noticeResp' = [reply EXCEPT
                                    !.items = NoticeItems(PageOf(sq, page,
                                                 IF lim = 0 THEN ForUserLimit ELSE lim)),
                                    !.total = Cardinality(counted)]
       /\ UNCHANGED notices

\* notice.incrementView(userId)
incrementView(n, u) ==
    IF u \in n.viewedBy THEN n ELSE [n EXCEPT !.viewedBy = n.viewedBy \cup {u}]

\* GET /notices/:id
getNotice(u, id) ==
    IF ~notices[id].exists
    THEN /\ noticeResp' = [NoNoticeResp EXCEPT !.op = "get", !.user = u, !.status = 404]
         /\ UNCHANGED notices
    ELSE IF (~notices[id].isPublished \/ ~notices[id].isActive) /\ Role(u) # "Admin"
    THEN /\ noticeResp' = [NoNoticeResp EXCEPT !.op = "get", !.user = u, !.status = 404]
         /\ UNCHANGED notices
    ELSE /\ notices' = [notices EXCEPT ![id] = incrementView(notices[id], u)]
         /\ noticeResp' = [NoNoticeResp EXCEPT !.op = "get", !.user = u, !.status = 200,
                                               !.items = NoticeItems({id})]

(***************************************************************************)
(* Messages: the Message model (unnamed/part_011) and                      *)
(* controllers/messagesController.js                                       *)
(***************************************************************************)
MaxMessages == 3

MessageIds == 1..MaxMessages
NoParent == 0
NoThread == 0

NoMessage == [exists |-> FALSE, sender |-> Undefined, recipient |-> Undefined,
              parentMessage |-> NoParent, threadId |-> NoThread, deletedBy |-> {},
              isDeleted |-> FALSE, isStarred |-> FALSE]
NoMsgResp == [op |-> "none", user |-> Undefined, id |-> 0, status |-> 0]

\* schema validation of a Message: sender, recipient and session are required
MessageValid(doc) ==
    /\ doc.sender # Undefined
    /\ doc.recipient # Undefined
    /\ doc.session # Undefined

\* pre('save'), reply branch: "This is a reply, use parent's thread ID"
ParentIdAsThread(parent, parentId) == parentId
ThreadOfParent(parent, parentId) ==
    IF parent.threadId # NoThread THEN parent.threadId ELSE parentId

\* pre('save') "generate thread ID": the hook fails when the parent is not
\* found
MessagePreSaveOk(doc) ==
    (doc.threadId = NoThread /\ doc.parentMessage # NoParent) =>
        (doc.parentMessage \in MessageIds /\ messages[doc.parentMessage].exists)

MessagePreSaveThread(id, doc) ==
    IF doc.threadId # NoThread THEN doc.threadId
    ELSE IF doc.parentMessage # NoParent
         THEN ThreadOfParent(messages[doc.parentMessage], doc.parentMessage)
    ELSE id

\* Message.create(doc) and the response of the handler that called it
MessageCreate(op, u, id, doc) ==
    /\ ~messages[id].exists
    /\ \A j \in MessageIds : j < id => messages[j].exists
    /\ IF MessageValid(doc) /\ MessagePreSaveOk(doc)
       THEN /\ messages' = [messages EXCEPT ![id] =
                  [exists |-> TRUE, sender |-> doc.sender, recipient |-> doc.recipient,
                   parentMessage |-> doc.parentMessage,
                   threadId |-> MessagePreSaveThread(id, doc),
                   deletedBy |-> {}, isDeleted |-> FALSE, isStarred |-> FALSE]]
            /\ msgResp' = [op |-> op, user |-> u, id |-> id, status |-> 201]
       ELSE /\ msgResp' = [op |-> op, user |-> u, id |-> id, status |-> 500]
            /\ UNCHANGED messages

\* POST /messages
sendMessage(u, id, recipient, parentMessage, userSession) ==
    IF recipient \notin Users
    THEN /\ msgResp' = [op |-> "send", user |-> u, id |-> 0, status |-> 404]
         /\ UNCHANGED messages
    ELSE MessageCreate("send", u, id,
            [sender |-> u, recipient |-> recipient, parentMessage |-> parentMessage,
             threadId |-> NoThread, session |-> userSession])

\* POST /messages/:id/reply
replyMessage(u, id, original, userSession) ==
    IF ~messages[original].exists
    THEN /\ msgResp' = [op |-> "reply", user |-> u, id |-> 0, status |-> 404]
         /\ UNCHANGED messages
    ELSE IF u # messages[original].sender /\ u # messages[original].recipient
    THEN /\ msgResp' = [op |-> "reply", user |-> u, id |-> 0, status |-> 403]
         /\ UNCHANGED messages
    ELSE MessageCreate("reply", u, id,
            [sender |-> u,
             recipient |-> IF u = messages[original].sender
                           THEN messages[original].recipient
                           ELSE messages[original].sender,
             parentMessage |-> original,
             threadId |-> messages[original].threadId,
             session |-> userSession])

\* methods.deleteForUser
deleteForUser(doc, u) ==
    LET deletedBy == IF u \in doc.deletedBy THEN doc.deletedBy ELSE doc.deletedBy \cup {u}
    IN [doc EXCEPT !.deletedBy = deletedBy,
                   !.isDeleted = IF Cardinality(deletedBy) >= 2 THEN TRUE ELSE doc.isDeleted]

\* DELETE /messages/:id
deleteMessage(u, id) ==
    IF ~messages[id].exists
    THEN /\ msgResp' = [op |-> "delete", user |-> u, id |-> id, status |-> 404]
         /\ UNCHANGED messages
    ELSE IF u # messages[id].sender /\ u # messages[id].recipient
    THEN /\ msgResp' = [op |-> "delete", user |-> u, id |-> id, status |-> 403]
         /\ UNCHANGED messages
    ELSE /\ messages' = [messages EXCEPT ![id] = deleteForUser(messages[id], u)]
         /\ msgResp' = [op |-> "delete", user |-> u, id |-> id, status |-> 200]

\* messageSchema.statics.getStarred over a Message collection: the starred
\* messages that u sent or received and has not deleted
StarredIn(collection, u) ==
    {i \in MessageIds : /\ collection[i].exists
                        /\ (collection[i].sender = u \/ collection[i].recipient = u)
                        /\ collection[i].isStarred
                        /\ u \notin collection[i].deletedBy}

\* GET /messages/starred
getStarred(u) == StarredIn(messages, u)

\* PUT /messages/:id/star; messageSchema.methods.toggleStar flips the one
\* isStarred flag of the document
toggleStar(u, id) ==
    IF ~messages[id].exists
    THEN /\ msgResp' = [op |-> "star", user |-> u, id |-> id, status |-> 404]
         /\ UNCHANGED messages
    ELSE IF u # messages[id].sender /\ u # messages[id].recipient
    THEN /\ msgResp' = [op |-> "star", user |-> u, id |-> id, status |-> 403]
         /\ UNCHANGED messages
    ELSE /\ messages' = [messages EXCEPT ![id].isStarred = ~messages[id].isStarred]
         /\ msgResp' = [op |-> "star", user |-> u, id |-> id, status |-> 200]

(***************************************************************************)
(* Authentication: the protect middleware (server.js 128-174) in front of  *)
(* every /api route but /api/auth, and the users controller                *)
(* (unnamed/part_007)                                                      *)
(***************************************************************************)
\* the Authorization header of a request: no bearer token, a token that
\* jwt.verify accepts, or one it rejects (expired or forged)
Tokens == {"none", "valid", "rejected"}

NoAuthResp == [op |-> "none", user |-> Undefined, token |-> "none", target |-> Undefined,
               status |-> 0, reachedHandler |-> FALSE]

\* protect: TRUE when next() is called, FALSE when it answers 401
ProtectSkippingActiveCheck(u, token) ==
    /\ token = "valid"
    /\ u \in Users
ProtectPasses(u, token) ==
    /\ token = "valid"
    /\ u \in Users
    /\ userActive[u]

AuthReply(op, u, token, target, status) ==
    [op |-> op, user |-> u, token |-> token, target |-> target, status |-> status,
     reachedHandler |-> ProtectPasses(u, token)]

\* a request to any protected route whose handler leaves the users alone
protectedRequest(u, token) ==
    /\ authResp' = AuthReply("request", u, token, Undefined,
                             IF ProtectPasses(u, token) THEN 200 ELSE 401)
    /\ UNCHANGED userActive

\* DELETE /users/:id
deleteUser(u, token, target) ==
    IF ~ProtectPasses(u, token)
    THEN /\ authResp' = AuthReply("deleteUser", u, token, target, 401)
         /\ UNCHANGED userActive
    ELSE IF target \notin Users
    THEN /\ authResp' = AuthReply("deleteUser", u, token, target, 404)
         /\ UNCHANGED userActive
    ELSE IF Role(target) = "Admin"
    THEN /\ authResp' = AuthReply("deleteUser", u, token, target, 400)
         /\ UNCHANGED userActive
    ELSE /\ userActive' = [userActive EXCEPT ![target] = FALSE]
         /\ authResp' = AuthReply("deleteUser", u, token, target, 200)

\* PUT /users/:id with isActive in the body
updateUser(u, token, target, isActive) ==
    IF ~ProtectPasses(u, token)
    THEN /\ authResp' = AuthReply("updateUser", u, token, target, 401)
         /\ UNCHANGED userActive
    ELSE IF target \notin Users
    THEN /\ authResp' = AuthReply("updateUser", u, token, target, 404)
         /\ UNCHANGED userActive
    ELSE IF Role(u) # "Admin" /\ u # target
    THEN /\ authResp' = AuthReply("updateUser", u, token, target, 403)
         /\ UNCHANGED userActive
    ELSE /\ userActive' = IF Role(u) = "Admin"
                          THEN [userActive EXCEPT ![target] = isActive]
                          ELSE userActive
         /\ authResp' = AuthReply("updateUser", u, token, target, 200)

(***************************************************************************)
(* Classes, sections, subjects and exams: the Class model                  *)
(* (unnamed/part_010), models/Section.js, models/Subject.js,               *)
(* models/Exam.js and the handlers deleteClass, deleteSubject,             *)
(* deleteStudent, createExam and updateExam                                *)
(***************************************************************************)
MaxExams == 1

ExamIds == 1..MaxExams
SectionIds == {"secA", "secB", "secC"}
SubjectIds == {"subject1", "subject2", "subject3"}
TeacherUsers == {"teacher1"}
\* HH:MM strings as the schema's match pattern accepts them
TimeStrings == {"9:00", "10:00", "11:00"}

NoSection == [exists |-> FALSE, class |-> Undefined]
NoExam == [exists |-> FALSE, class |-> Undefined, subject |-> Undefined, teacher |-> Undefined,
           date |-> NoDate, startTime |-> Undefined, endTime |-> Undefined,
           totalMarks |-> NoNumber, passingMarks |-> NoNumber, status |-> Undefined]
NoAdminResp == [op |-> "none", target |-> Undefined, status |-> 0, activeStudents |-> NoNumber,
                hasExams |-> NoNumber, hasMarks |-> NoNumber, totalMarks |-> NoNumber]
NoSubject == [exists |-> FALSE, code |-> Undefined, teacher |-> Undefined, classes |-> {},
              totalMarks |-> NoNumber, passingMarks |-> NoNumber, updatedBy |-> Undefined]

SeededSections ==
    [sec \in SectionIds |->
        [exists |-> TRUE, class |-> IF sec = "secC" THEN "c2" ELSE "c1"]]

SeededSubjects ==
    [sub \in SubjectIds |->
        IF sub = "subject3" THEN NoSubject
        ELSE [exists |-> TRUE, code |-> IF sub = "subject1" THEN "MATH" ELSE "PHY",
              teacher |-> IF sub = "subject1" THEN "teacher1" ELSE Undefined,
              classes |-> ClassIds, totalMarks |-> 100, passingMarks |-> 40,
              updatedBy |-> Undefined]]

SeededTeachers == [t \in TeacherUsers |-> {"subject1"}]

\* the subject of an ExamMark document
MarkSubject(id) == "subject1"

\* DELETE /students/:id: "Soft delete - change status to Inactive", "Also
\* deactivate user account"
deleteStudent(st) ==
    /\ students' = [students EXCEPT ![st].status = "Inactive"]
    /\ userActive' = [userActive EXCEPT ![students[st].user] = FALSE]
    /\ adminResp' = [NoAdminResp EXCEPT !.op = "deleteStudent", !.target = st, !.status = 200]

\* Student.countDocuments({class, status: 'Active'})
activeStudents(classId) ==
    Cardinality({st \in StudentIds :
                    students[st].class = classId /\ students[st].status = "Active"})

\* DELETE /classes/:id
deleteClass(classId) ==
    LET reply == [NoAdminResp EXCEPT !.op = "deleteClass", !.target = classId]
    IN IF classId \notin classes
       THEN /\ adminResp' = [reply EXCEPT !.status = 404]
            /\ UNCHANGED <<classes, sections, subjects>>
       ELSE IF activeStudents(classId) > 0
       THEN /\ adminResp' = [reply EXCEPT !.status = 400,
                                          !.activeStudents = activeStudents(classId)]
            /\ UNCHANGED <<classes, sections, subjects>>
       ELSE /\ subjects' = [sub \in SubjectIds |->
                               [subjects[sub] EXCEPT !.classes = subjects[sub].classes \ {classId}]]
            /\ sections' = [sec \in SectionIds |->
                               IF sections[sec].exists /\ sections[sec].class = classId
                               THEN NoSection ELSE sections[sec]]
            /\ classes' = classes \ {classId}
            /\ adminResp' = [reply EXCEPT !.status = 200]

\* Exam.countDocuments({subject}) and ExamMark.countDocuments({subject})
hasExams(subjectId) ==
    Cardinality({i \in ExamIds : exams[i].exists /\ exams[i].subject = subjectId})
hasMarksUncounted(subjectId) == 0
hasMarks(subjectId) ==
    Cardinality({id \in MarkIds : marks[id].exists /\ MarkSubject(id) = subjectId})

\* DELETE /subjects/:id; the Subject schema has no status path, so of the
\* update {status: 'Inactive', updatedBy} only updatedBy is written
deleteSubject(u, subjectId) ==
    LET reply == [NoAdminResp EXCEPT !.op = "deleteSubject", !.target = subjectId]
    IN IF subjectId \notin SubjectIds \/ ~subjects[subjectId].exists
       THEN /\ adminResp' = [reply EXCEPT !.status = 404]
            /\ UNCHANGED <<subjects, teachers>>
       ELSE IF hasExams(subjectId) > 0 \/ hasMarks(subjectId) > 0
       THEN /\ adminResp' = [reply EXCEPT !.status = 400,
                                          !.hasExams = hasExams(subjectId),
                                          !.hasMarks = hasMarks(subjectId)]
            /\ UNCHANGED <<subjects, teachers>>
       ELSE /\ teachers' = [t \in TeacherUsers |->
                               IF subjects[subjectId].teacher = t
                               THEN teachers[t] \ {subjectId} ELSE teachers[t]]
            /\ subjects' = [subjects EXCEPT ![subjectId].updatedBy = u]
            /\ adminResp' = [reply EXCEPT !.status = 200]

\* subjectSchema.pre('save'): "Validate passing marks is less than total
\* marks"
SubjectPreSaveOk(doc) == ~(doc.passingMarks >= doc.totalMarks)

\* POST /subjects; passMarks is not a path of the schema, so passingMarks
\* takes its default 40; totalMarks defaults to 100; session is required
createSubject(u, id, code, totalMarks, teacher, session) ==
    LET reply == [NoAdminResp EXCEPT !.op = "createSubject", !.target = id,
                                     !.totalMarks = totalMarks]
        doc == [exists |-> TRUE, code |-> code, teacher |-> teacher, classes |-> {},
                totalMarks |-> IF totalMarks = NoNumber THEN 100 ELSE totalMarks,
                passingMarks |-> 40, updatedBy |-> Undefined]
    IN /\ ~subjects[id].exists
       /\ IF session # Undefined
             /\ \E sub \in SubjectIds : subjects[sub].exists /\ subjects[sub].code = code
          THEN /\ adminResp' = [reply EXCEPT !.status = 400]
               /\ UNCHANGED <<subjects, teachers>>
          ELSE IF session = Undefined \/ doc.totalMarks < 1 \/ ~SubjectPreSaveOk(doc)
          THEN /\ adminResp' = [reply EXCEPT !.status = 500]
               /\ UNCHANGED <<subjects, teachers>>
          ELSE /\ subjects' = [subjects EXCEPT ![id] = doc]
               /\ teachers' = [t \in TeacherUsers |->
                                  IF teacher = t THEN teachers[t] \cup {id} ELSE teachers[t]]
               /\ adminResp' = [reply EXCEPT !.status = 201]

\* the teacher lists after updateSubject's "Update teacher assignments if
\* teacher changed"
ReassignedTeachers(subjectId, teacher) ==
    IF teacher = subjects[subjectId].teacher
    THEN teachers
    ELSE [t \in TeacherUsers |->
             IF teacher = t THEN teachers[t] \cup {subjectId}
             ELSE IF subjects[subjectId].teacher = t THEN teachers[t] \ {subjectId}
             ELSE teachers[t]]

\* PUT /subjects/:id: Subject.findByIdAndUpdate with runValidators, which
\* runs the path validators and no pre('save') hook.  A body field that is
\* absent reaches the update as undefined: the build either omits it or
\* writes null (omitUndefined), and null fails the required path code
updateSubject(u, subjectId, code, totalMarks, teacher, omitUndefined) ==
    LET reply == [NoAdminResp EXCEPT !.op = "updateSubject", !.target = subjectId,
                                     !.totalMarks = totalMarks]
        old == subjects[subjectId]
        new == [old EXCEPT
                   !.code = IF code = Undefined /\ omitUndefined THEN old.code ELSE code,
                   !.totalMarks = IF totalMarks = NoNumber /\ omitUndefined
                                  THEN old.totalMarks ELSE totalMarks,
                   !.teacher = IF teacher = Undefined /\ omitUndefined
                               THEN old.teacher ELSE teacher,
                   !.updatedBy = u]
    IN IF ~old.exists
       THEN /\ adminResp' = [reply EXCEPT !.status = 404]
            /\ UNCHANGED <<subjects, teachers>>
       ELSE IF /\ code # Undefined
               /\ code # old.code
               /\ \E sub \in SubjectIds \ {subjectId} :
                     subjects[sub].exists /\ subjects[sub].code = code
       THEN /\ adminResp' = [reply EXCEPT !.status = 400]
            /\ UNCHANGED <<subjects, teachers>>
       ELSE /\ teachers' = ReassignedTeachers(subjectId, teacher)
            /\ IF new.code = Undefined \/ (new.totalMarks # NoNumber /\ new.totalMarks < 1)
               THEN /\ adminResp' = [reply EXCEPT !.status = 500]
                    /\ UNCHANGED subjects
               ELSE /\ subjects' = [subjects EXCEPT ![subjectId] = new]
                    /\ adminResp' = [reply EXCEPT !.status = 200]

\* JavaScript's comparison of two time strings: by code units, so "9:00"
\* sorts after "10:00"
StringRank(t) ==
    CASE t = "10:00" -> 1
      [] t = "11:00" -> 2
      [] OTHER -> 3

\* split(':').reduce((acc, time) => (60 * acc) + +time)
Minutes(t) ==
    CASE t = "9:00" -> 540
      [] t = "10:00" -> 600
      [] OTHER -> 660

\* schema validation of an Exam: date, startTime, endTime, totalMarks,
\* passingMarks, session and createdBy are required
ExamValid(doc, session) ==
    /\ doc.date # NoDate
    /\ doc.startTime # Undefined
    /\ doc.endTime # Undefined
    /\ doc.totalMarks # NoNumber /\ doc.totalMarks >= 1
    /\ doc.passingMarks # NoNumber /\ doc.passingMarks >= 1
    /\ session # Undefined

\* the pre('save') hooks: "Validate passing marks is less than total
\* marks", "Validate end time is after start time"
ExamPreSaveOk(doc) ==
    /\ ~(doc.passingMarks >= doc.totalMarks)
    /\ ~(Minutes(doc.endTime) <= Minutes(doc.startTime))

\* "Check for conflicting exams": the filter names examDate, which is not a
\* path of the schema (the path is date)
ConflictingExam(classId, startTime, endTime, strictQuery) ==
    \E i \in ExamIds :
        /\ exams[i].exists
        /\ strictQuery
        /\ exams[i].class = classId
        /\ \/ /\ StringRank(exams[i].startTime) <= StringRank(startTime)
              /\ StringRank(exams[i].endTime) >= StringRank(startTime)
           \/ /\ StringRank(exams[i].startTime) <= StringRank(endTime)
              /\ StringRank(exams[i].endTime) >= StringRank(endTime)
           \/ /\ StringRank(exams[i].startTime) >= StringRank(startTime)
              /\ StringRank(exams[i].endTime) <= StringRank(endTime)
        /\ exams[i].status # "Cancelled"

\* POST /exams; the document handed to Exam.create carries examDate and
\* passMarks, which the schema drops, and neither date nor passingMarks
createExam(u, id, classId, subjectId, examDate, startTime, endTime, totalMarks, userSession, strictQuery) ==
    LET reply == [NoAdminResp EXCEPT !.op = "createExam", !.target = classId]
        doc == [exists |-> TRUE, class |-> classId, subject |-> subjectId, teacher |-> u,
                date |-> NoDate, startTime |-> startTime, endTime |-> endTime,
                totalMarks |-> totalMarks, passingMarks |-> NoNumber, status |-> "Scheduled"]
    IN /\ ~exams[id].exists
       /\ \A j \in ExamIds : j < id => exams[j].exists
       /\ IF examDate < now
          THEN /\ adminResp' = [reply EXCEPT !.status = 400]
               /\ UNCHANGED exams
          ELSE IF StringRank(startTime) >= StringRank(endTime)
          THEN /\ adminResp' = [reply EXCEPT !.status = 400]
               /\ UNCHANGED exams
          ELSE IF ConflictingExam(classId, startTime, endTime, strictQuery)
          THEN /\ adminResp' = [reply EXCEPT !.status = 400]
               /\ UNCHANGED exams
          ELSE IF ExamValid(doc, userSession) /\ ExamPreSaveOk(doc)
          THEN /\ exams' = [exams EXCEPT ![id] = doc]
               /\ adminResp' = [reply EXCEPT !.status = 201]
          ELSE /\ adminResp' = [reply EXCEPT !.status = 500]
               /\ UNCHANGED exams

\* PUT /exams/:id; exam.examDate is undefined on every loaded document, so
\* exam.examDate.toDateString() throws and the handler answers 500
updateExam(u, id) ==
    /\ adminResp' = [NoAdminResp EXCEPT
                        !.op = "updateExam",
                        !.status = IF ~exams[id].exists THEN 404
                                   ELSE IF Role(u) = "Teacher" /\ exams[id].teacher # u THEN 403
                                   ELSE 500]
    /\ UNCHANGED exams

(***************************************************************************)
(* Pagination of the list endpoints, by the number of matching documents:  *)
(* getAttendance (controllers/attendanceController.js 70-101) and getBooks *)
(* (routes/dashboard.js 68-91)                                             *)
(***************************************************************************)
\* numbers of documents matching the query and values of the limit
\* parameter; NoNumber is a request without limit
MatchCounts == {0, 9, 11, 100, 101, 150}
LimitParams == {NoNumber, 1, 10, 100, 101, 500}
PageParams == {1, 2}

NoPageResp == [op |-> "none", endpoint |-> Undefined, total |-> 0, page |-> 1,
               limitParam |-> NoNumber, limit |-> 0, items |-> 0, pages |-> 0]

\* Math.ceil(total / limit)
CeilDiv(total, limit) == (total + limit - 1) \div limit

\* the number of documents .limit(limit * 1).skip((page - 1) * limit) returns
PageCount(total, page, limit) ==
    LET remaining == Max(total - (page - 1) * limit, 0)
    IN IF remaining < limit THEN remaining ELSE limit

\* const { page = 1, limit = 10 } = req.query and the pagination block
listPage(endpoint, total, page, limitParam) ==
    LET limit == IF limitParam = NoNumber THEN DefaultLimit ELSE limitParam
    IN pageResp' = [op |-> "list", endpoint |-> endpoint, total |-> total, page |-> page,
                    limitParam |-> limitParam, limit |-> limit,
                    items |-> PageCount(total, page, limit),
                    pages |-> CeilDiv(total, limit)]

(***************************************************************************)
(* Generated identifiers (models/FeePayment.js, models/Student.js,         *)
(* models/Session.js).  An identifier is its prefix and the digits that    *)
(* follow it; the digits are a tuple so that padStart, slice, parseInt and *)
(* the string ordering of the sort are each modelled by what they do.      *)
(***************************************************************************)
\* how many payments were receipted in the current month before the run
PriorReceipts == {0, 1, 2, 9, 10, 99, 100, 9998, 9999, 10000}

\* new payments saved in one run
MaxNewIds == 3

\* padStart(4, '0') / slice(-4) of the receipt number
ReceiptWidth == 4

Months == 0..MaxTime

NoDigits == <<>>

NoIdResp == [op |-> "none", kind |-> "none", month |-> 0, generated |-> NoDigits, status |-> 0]

RECURSIVE DigitsOf(_)
\* Number.prototype.toString(): the decimal digits of n
DigitsOf(n) == IF n < 10 THEN <<n>> ELSE Append(DigitsOf(n \div 10), n % 10)

\* String.prototype.padStart(width, '0') of the decimal digits of n
PadStart(n, width) ==
    LET ds == DigitsOf(n)
    IN IF Len(ds) >= width THEN ds
       ELSE [i \in 1..width |-> IF i <= width - Len(ds) THEN 0 ELSE ds[i - (width - Len(ds))]]

\* String.prototype.slice(-k)
SliceLast(ds, k) == IF Len(ds) <= k THEN ds ELSE SubSeq(ds, Len(ds) - k + 1, Len(ds))

RECURSIVE ParseInt(_)
\* parseInt of a string of decimal digits
ParseInt(ds) == IF ds = <<>> THEN 0 ELSE 10 * ParseInt(SubSeq(ds, 1, Len(ds) - 1)) + ds[Len(ds)]

StartsWith(ds, pre) == Len(ds) >= Len(pre) /\ SubSeq(ds, 1, Len(pre)) = pre

RECURSIVE LexLastFrom(_, _)
\* the last string of S in string order among those that start with pre:
\* a string that continues pre sorts after pre, a larger next digit sorts later
LexLastFrom(S, pre) ==
    LET nextDigits == {d \in 0..9 : \E ds \in S : StartsWith(ds, Append(pre, d))}
    IN IF nextDigits = {} THEN pre
       ELSE LexLastFrom(S, Append(pre, CHOOSE d \in nextDigits : \A e \in nextDigits : e <= d))

\* findOne({receiptNumber: /^RCP<year><month>/}).sort({receiptNumber: -1})
lastPayment(month) == LexLastFrom({r.digits : r \in {x \in receiptNumbers : x.month = month}}, <<>>)

\* feePaymentSchema.pre('save'), the receipt number of a new payment
generateReceiptNumber(month) ==
    LET last == lastPayment(month)
        nextNumber == IF last = NoDigits THEN 1 ELSE ParseInt(SliceLast(last, ReceiptWidth)) + 1
    IN PadStart(nextNumber, ReceiptWidth)

\* new FeePayment(...).save() without a receipt number; the unique index on
\* receiptNumber rejects a number that is already stored
saveNewPayment(month) ==
    LET number == generateReceiptNumber(month)
        doc == [month |-> month, digits |-> number]
    IN IF doc \in receiptNumbers
       THEN /\ idResp' = [NoIdResp EXCEPT !.op = "save", !.kind = "receiptNumber", !.month = month,
                                         !.generated = number, !.status = 500]
            /\ UNCHANGED receiptNumbers
       ELSE /\ idResp' = [NoIdResp EXCEPT !.op = "save", !.kind = "receiptNumber", !.month = month,
                                         !.generated = number, !.status = 201]
            /\ receiptNumbers' = receiptNumbers \cup {doc}

\* Student.create / Teacher.create without studentId / employeeId: the path is
\* required, validation runs before the pre('save') hook that would generate it
saveWithoutId(kind) ==
    /\ idResp' = [NoIdResp EXCEPT !.op = "save", !.kind = kind, !.month = now, !.status = 500]
    /\ UNCHANGED receiptNumbers

(***************************************************************************)
(* Concurrent POST /exams requests (controllers/examsController.js         *)
(* 190-269): the handler awaits Exam.findOne before Exam.create, so        *)
(* another request can run between the conflict check and the insert       *)
(***************************************************************************)
IdleExam == [pc |-> "idle", class |-> Undefined, examDate |-> NoDate, startTime |-> Undefined,
             endTime |-> Undefined, session |-> Undefined, status |-> 0]

\* the request up to and including "Check for conflicting exams"
createExamCheck(p, classId, examDate, startTime, endTime, userSession, strictQuery) ==
    LET req == [IdleExam EXCEPT !.class = classId, !.examDate = examDate, !.startTime = startTime,
                                !.endTime = endTime, !.session = userSession]
    IN /\ examProc[p].pc = "idle"
       /\ examProc' = [examProc EXCEPT ![p] =
             IF \/ examDate < now
                \/ StringRank(startTime) >= StringRank(endTime)
                \/ ConflictingExam(classId, startTime, endTime, strictQuery)
             THEN [req EXCEPT !.pc = "done", !.status = 400]
             ELSE [req EXCEPT !.pc = "checked"]]
       /\ UNCHANGED exams

\* Exam.create and the reply
createExamCreate(p, id) ==
    LET req == examProc[p]
        doc == [exists |-> TRUE, class |-> req.class, subject |-> "subject1", teacher |-> "teacher1",
                date |-> NoDate, startTime |-> req.startTime, endTime |-> req.endTime,
                totalMarks |-> 100, passingMarks |-> NoNumber, status |-> "Scheduled"]
    IN /\ req.pc = "checked"
       /\ ~exams[id].exists
       /\ \A j \in ExamIds : j < id => exams[j].exists
       /\ IF ExamValid(doc, req.session) /\ ExamPreSaveOk(doc)
          THEN /\ exams' = [exams EXCEPT ![id] = doc]
               /\ examProc' = [examProc EXCEPT ![p].pc = "done", ![p].status = 201]
          ELSE /\ examProc' = [examProc EXCEPT ![p].pc = "done", ![p].status = 500]
               /\ UNCHANGED exams

(***************************************************************************)
(* Class assignment of teachers: assignClass of                            *)
(* controllers/teachersController.js and teacherSchema.methods.assignClass *)
(* (models/Session.js holds the Teacher schema)                            *)
(***************************************************************************)
\* the Teacher records of the store, created through POST /teachers
TeacherRecords == {"T1", "T2"}

\* the user field of a Teacher record
TeacherUser(t) == IF t = "T1" THEN "teacher1" ELSE "teacher2"

NoAssignResp == [op |-> "none", teacher |-> Undefined, class |-> Undefined, status |-> 0]

\* Teacher.updateMany({'assignedClasses.class': classId},
\*                    {$set: {'assignedClasses.$.isClassTeacher': false}}):
\* the positional operator names the first element that matches the filter
ClearFirstClassTeacher(arr, classId) ==
    IF \E i \in 1..Len(arr) : arr[i].class = classId
    THEN LET first == CHOOSE i \in 1..Len(arr) :
                         /\ arr[i].class = classId
                         /\ \A j \in 1..(i - 1) : arr[j].class # classId
         IN [arr EXCEPT ![first].isClassTeacher = FALSE]
    ELSE arr

\* teacherSchema.methods.assignClass on the document as it was loaded
AssignToLoaded(arr, classId, sectionId, isClassTeacher) ==
    LET Kept(ac) == ~(ac.class = classId /\ (sectionId = Undefined \/ ac.section = sectionId))
    IN Append(SelectSeq(arr, Kept),
              [class |-> classId, section |-> sectionId, isClassTeacher |-> isClassTeacher])

\* POST /teachers/:id/assign-class; the teacher document is loaded before
\* the updateMany and saved with its whole assignedClasses array after it
assignClass(t, classId, sectionId, isClassTeacher) ==
    LET reply == [NoAssignResp EXCEPT !.op = "assignClass", !.teacher = t, !.class = classId]
    IN IF t \notin TeacherRecords
       THEN /\ assignResp' = [reply EXCEPT !.status = 404]
            /\ UNCHANGED <<assignedClasses, classTeacher>>
       ELSE IF classId \notin classes
       THEN /\ assignResp' = [reply EXCEPT !.status = 404]
            /\ UNCHANGED <<assignedClasses, classTeacher>>
       ELSE /\ classTeacher' = IF isClassTeacher
                               THEN [classTeacher EXCEPT ![classId] = TeacherUser(t)]
                               ELSE classTeacher
            /\ assignedClasses' = [o \in TeacherRecords |->
                  IF o = t
                  THEN AssignToLoaded(assignedClasses[t], classId, sectionId, isClassTeacher)
                  ELSE IF isClassTeacher
                  THEN ClearFirstClassTeacher(assignedClasses[o], classId)
                  ELSE assignedClasses[o]]
            /\ assignResp' = [reply EXCEPT !.status = 200]

(***************************************************************************)
(* Enrolment: createStudent of controllers/studentsController.js and the   *)
(* Student schema (models/Student.js)                                      *)
(***************************************************************************)
Emails == {"a@school", "b@school", "c@school"}
AdmissionNumbers == {"A1", "A2"}

NoEnrolResp == [op |-> "none", email |-> Undefined, admissionNumber |-> Undefined,
                class |-> Undefined, status |-> 0]

\* schema validation of a Student document: user, studentId, class and
\* session are required; it runs before the pre('save') hook that would
\* generate a missing studentId
StudentValid(doc) ==
    /\ doc.user # Undefined
    /\ doc.studentId # Undefined
    /\ doc.class # Undefined
    /\ doc.session # Undefined

\* POST /students; valid is the outcome of the route's validation rules.
\* The document handed to Student.create has no studentId.
createStudent(valid, email, admissionNumber, classId, session) ==
    LET reply == [NoEnrolResp EXCEPT !.op = "createStudent", !.email = email,
                                     !.admissionNumber = admissionNumber, !.class = classId]
        doc == [user |-> email, studentId |-> Undefined, admissionNumber |-> admissionNumber,
                class |-> classId, session |-> session]
    IN IF ~valid
       THEN /\ enrolResp' = [reply EXCEPT !.status = 400]
            /\ UNCHANGED <<userAccounts, studentRecords>>
       ELSE IF \E st \in studentRecords : st.admissionNumber = admissionNumber
       THEN /\ enrolResp' = [reply EXCEPT !.status = 400]
            /\ UNCHANGED <<userAccounts, studentRecords>>
       ELSE IF email \in userAccounts
       THEN /\ enrolResp' = [reply EXCEPT !.status = 500]
            /\ UNCHANGED <<userAccounts, studentRecords>>
       ELSE /\ userAccounts' = userAccounts \cup {email}
            /\ IF StudentValid(doc)
               THEN /\ studentRecords' = studentRecords \cup {doc}
                    /\ enrolResp' = [reply EXCEPT !.status = 201]
               ELSE /\ enrolResp' = [reply EXCEPT !.status = 500]
                    /\ UNCHANGED studentRecords

(***************************************************************************)
(* Initial state and the specifications                                    *)
(***************************************************************************)
InitStores ==
    /\ sessions = [i \in SessionIds |-> NoSession]
    /\ sessProc = [p \in Procs |-> IdleProc]
    /\ books = [b \in BookIds |-> NoBook]
    /\ libResp = NoLibResp
    /\ marks = [i \in MarkIds |-> NoMark]
    /\ markResp = NoMarkResp
    /\ payments = [i \in PaymentIds |-> NoPayment]
    /\ feeStructures = {}
    /\ now = 0
    /\ feeResp = NoFeeResp
    /\ students = SeededStudents
    /\ attendance = [i \in AttendanceIds |-> NoAttendance]
    /\ attResp = NoAttResp
    /\ notices = [i \in NoticeIds |-> NoNotice]
    /\ noticeResp = NoNoticeResp
    /\ messages = [i \in MessageIds |-> NoMessage]
    /\ msgResp = NoMsgResp
    /\ userActive = [u \in Users |-> TRUE]
    /\ authResp = NoAuthResp
    /\ classes = ClassIds
    /\ sections = SeededSections
    /\ subjects = SeededSubjects
    /\ teachers = SeededTeachers
    /\ exams = [i \in ExamIds |-> NoExam]
    /\ adminResp = NoAdminResp
    /\ pageResp = NoPageResp
    /\ issueProc = [p \in Procs |-> IdleIssue]
    /\ idResp = NoIdResp
    /\ idSaves = 0
    /\ examProc = [p \in Procs |-> IdleExam]
    /\ assignedClasses = [t \in TeacherRecords |-> <<>>]
    /\ classTeacher = [c \in ClassIds |-> Undefined]
    /\ assignResp = NoAssignResp
    /\ userAccounts = {}
    /\ studentRecords = {}
    /\ enrolResp = NoEnrolResp

Init ==
    /\ InitStores
    /\ receiptNumbers = {}

\* Session saves executed one at a time
SeqSessionSaveStart ==
    /\ AllSavesCompleted
    /\ \E p \in Procs, id \in SessionIds, active \in BOOLEAN, sd \in Dates, ed \in Dates :
          SessionSaveStart(p, id, active, sd, ed)
    /\ UNCHANGED <<libVars, markVars, feeVars, now, students, attVars, noticeVars, msgVars, authVars, adminVars, pageVars, issueVars, idVars, examProcVars, teacherVars, enrolVars>>

ConcSessionSaveStart ==
    /\ \E p \in Procs, id \in SessionIds, active \in BOOLEAN, sd \in Dates, ed \in Dates :
          SessionSaveStart(p, id, active, sd, ed)
    /\ UNCHANGED <<libVars, markVars, feeVars, now, students, attVars, noticeVars, msgVars, authVars, adminVars, pageVars, issueVars, idVars, examProcVars, teacherVars, enrolVars>>

SessionSaveDeactivateStep ==
    /\ \E p \in Procs : SessionSaveDeactivate(p)
    /\ UNCHANGED <<libVars, markVars, feeVars, now, students, attVars, noticeVars, msgVars, authVars, adminVars, pageVars, issueVars, idVars, examProcVars, teacherVars, enrolVars>>

SessionSaveWriteStep ==
    /\ \E p \in Procs : SessionSaveWrite(p)
    /\ UNCHANGED <<libVars, markVars, feeVars, now, students, attVars, noticeVars, msgVars, authVars, adminVars, pageVars, issueVars, idVars, examProcVars, teacherVars, enrolVars>>

NextSessionSeq ==
    \/ SeqSessionSaveStart
    \/ SessionSaveDeactivateStep
    \/ SessionSaveWriteStep

NextSessionConc ==
    \/ ConcSessionSaveStart
    \/ SessionSaveDeactivateStep
    \/ SessionSaveWriteStep

SpecSessionSeq == Init /\ [][NextSessionSeq]_vars
SpecSessionConc == Init /\ [][NextSessionConc]_vars

AddBookStep ==
    /\ \E b \in BookIds, isbn \in Isbns, t \in CopyInputs, us \in {Undefined, "session"} :
          addBook(b, isbn, t, us)
    /\ UNCHANGED <<sessVars, markVars, feeVars, now, students, attVars, noticeVars, msgVars, authVars, adminVars, pageVars, issueVars, idVars, examProcVars, teacherVars, enrolVars>>

UpdateBookStep ==
    /\ \E b \in BookIds, isbn \in Isbns, t \in CopyInputs \cup {NoNumber} :
          updateBook(b, isbn, t)
    /\ UNCHANGED <<sessVars, markVars, feeVars, now, students, attVars, noticeVars, msgVars, authVars, adminVars, pageVars, issueVars, idVars, examProcVars, teacherVars, enrolVars>>

DeleteBookStep ==
    /\ \E b \in BookIds : deleteBook(b)
    /\ UNCHANGED <<sessVars, markVars, feeVars, now, students, attVars, noticeVars, msgVars, authVars, adminVars, pageVars, issueVars, idVars, examProcVars, teacherVars, enrolVars>>

IssueBookStep ==
    /\ \E b \in BookIds : issueBook(b)
    /\ UNCHANGED <<sessVars, markVars, feeVars, now, students, attVars, noticeVars, msgVars, authVars, adminVars, pageVars, issueVars, idVars, examProcVars, teacherVars, enrolVars>>

ReturnBookStep ==
    /\ \E b \in BookIds : returnBook(b)
    /\ UNCHANGED <<sessVars, markVars, feeVars, now, students, attVars, noticeVars, msgVars, authVars, adminVars, pageVars, issueVars, idVars, examProcVars, teacherVars, enrolVars>>

NextLibrary ==
    \/ AddBookStep
    \/ UpdateBookStep
    \/ DeleteBookStep
    \/ IssueBookStep
    \/ ReturnBookStep

SpecLibrary == Init /\ [][NextLibrary]_vars

ExamMarkSaveStep ==
    /\ \E id \in MarkIds, m \in MarkInputs, t \in TotalInputs, pm \in PassingInputs,
          absent \in BOOLEAN, supplied \in BOOLEAN :
          ExamMarkSave(id, m, t, pm, absent, supplied)
    /\ UNCHANGED <<sessVars, libVars, feeVars, now, students, attVars, noticeVars, msgVars, authVars, adminVars, pageVars, issueVars, idVars, examProcVars, teacherVars, enrolVars>>

NextExamMark ==
    \/ ExamMarkSaveStep

SpecExamMark == Init /\ [][NextExamMark]_vars

FeePaymentSaveStep ==
    /\ \E id \in PaymentIds, paid \in Amounts, late \in Surcharges, disc \in {0, 0 - 50},
          dd \in {NoDate} \cup (0..(MaxTime - 1)) :
          FeePaymentSave(id, "S1", 1000, paid, late, disc, dd, "Pending")
    /\ UNCHANGED <<sessVars, libVars, markVars, now, students, attVars, noticeVars, msgVars, authVars, adminVars, pageVars, issueVars, idVars, examProcVars, teacherVars, enrolVars>>

TickStep ==
    /\ Tick
    /\ UNCHANGED <<sessVars, libVars, markVars, feeVars, students, attVars, noticeVars, msgVars, authVars, adminVars, pageVars, issueVars, idVars, examProcVars, teacherVars, enrolVars>>

CreateFeeStructureStep ==
    /\ \E c \in ClassIds, ft \in FeeTypeIds, a \in {500, 1000}, dd \in {0}, us \in {Undefined, "session"} :
          createFeeStructure(c, ft, a, dd, us)
    /\ UNCHANGED <<sessVars, libVars, markVars, now, students, attVars, noticeVars, msgVars, authVars, adminVars, pageVars, issueVars, idVars, examProcVars, teacherVars, enrolVars>>

RecordFeePaymentStep ==
    /\ \E id \in PaymentIds, sid \in StudentIds \cup {"S9"}, ft \in FeeTypeIds,
          a \in Amounts \cup {NoNumber}, late \in {NoNumber, 50}, disc \in {NoNumber, 50},
          sq \in BOOLEAN :
          recordFeePayment(id, "admin", sid, ft, a, late, disc, sq)
    /\ UNCHANGED <<sessVars, libVars, markVars, now, students, attVars, noticeVars, msgVars, authVars, adminVars, pageVars, issueVars, idVars, examProcVars, teacherVars, enrolVars>>

PriorPaymentSaveStep ==
    /\ \E id \in PaymentIds, sid \in {"S1", "S3"}, paid \in {500, 1000} :
          FeePaymentSave(id, sid, 1000, paid, 0, 0, NoDate, "Paid")
    /\ UNCHANGED <<sessVars, libVars, markVars, now, students, attVars, noticeVars, msgVars, authVars, adminVars, pageVars, issueVars, idVars, examProcVars, teacherVars, enrolVars>>

NextFeeStatus ==
    \/ FeePaymentSaveStep
    \/ TickStep

NextFeeRecord ==
    \/ PriorPaymentSaveStep
    \/ CreateFeeStructureStep
    \/ RecordFeePaymentStep

SpecFeeStatus == Init /\ [][NextFeeStatus]_vars
SpecFeeRecord == Init /\ [][NextFeeRecord]_vars

AttendanceCreateStep ==
    /\ \E id \in AttendanceIds, st \in {"S1", "S3"}, d \in Days,
          status \in AttendanceStatuses :
          AttendanceCreate(id, st, students[st].class, d, status)
    /\ UNCHANGED <<sessVars, libVars, markVars, feeVars, now, students, noticeVars, msgVars, authVars, adminVars, pageVars, issueVars, idVars, examProcVars, teacherVars, enrolVars>>

GetAttendanceStep ==
    /\ \E u \in {"admin", "teacher1", "student1", "parent1"},
          paging \in {<<1, NoNumber>>, <<1, 1>>, <<2, 1>>},
          c \in ClassIds \cup {Undefined}, st \in StudentIds \cup {Undefined},
          status \in {Undefined, "Present"}, d \in {NoDate, 0},
          range \in {<<NoDate, NoDate>>, <<0, 1>>} :
          getAttendance(u, paging[1], paging[2], c, st, status, d, range[1], range[2])
    /\ UNCHANGED <<sessVars, libVars, markVars, feeVars, now, students, noticeVars, msgVars, authVars, adminVars, pageVars, issueVars, idVars, examProcVars, teacherVars, enrolVars>>

NextAttendance ==
    \/ AttendanceCreateStep
    \/ GetAttendanceStep

SpecAttendance == Init /\ [][NextAttendance]_vars

StudentPaymentSaveStep ==
    /\ \E id \in PaymentIds, sid \in StudentIds, paid \in {0, 500, 1000} :
          FeePaymentSave(id, sid, 1000, paid, 0, 0, NoDate, "Paid")
    /\ UNCHANGED <<sessVars, libVars, markVars, now, students, attVars, noticeVars, msgVars, authVars, adminVars, pageVars, issueVars, idVars, examProcVars, teacherVars, enrolVars>>

GetFeePaymentsStep ==
    /\ \E u \in {"admin", "student1", "parent1", "parent2"},
          paging \in {<<1, NoNumber>>, <<1, 1>>, <<2, 1>>},
          sid \in StudentIds \cup {Undefined}, c \in ClassIds \cup {Undefined},
          ft \in FeeTypeIds \cup {Undefined}, status \in {Undefined, "Paid"},
          range \in {<<NoDate, NoDate>>, <<MaxTime, MaxTime>>} :
          getFeePayments(u, paging[1], paging[2], sid, c, ft, status, range[1], range[2])
    /\ UNCHANGED <<sessVars, libVars, markVars, now, students, attVars, noticeVars, msgVars, authVars, adminVars, pageVars, issueVars, idVars, examProcVars, teacherVars, enrolVars>>

NextFeeQuery ==
    \/ StudentPaymentSaveStep
    \/ TickStep
    \/ GetFeePaymentsStep

SpecFeeQuery == Init /\ [][NextFeeQuery]_vars

CreateNoticeStep ==
    /\ \E id \in NoticeIds, ta \in {NoList, {"Teachers"}, {"Students"}},
          tc \in {NoList, {"c1"}}, pd \in {NoDate, MaxTime}, ed \in {NoDate, MaxTime},
          pub \in {<<FALSE, FALSE>>, <<TRUE, FALSE>>}, pin \in BOOLEAN,
          us \in {Undefined, "session"} :
          createNotice(id, ta, tc, pd, ed, pub[1], pub[2], pin, us)
    /\ UNCHANGED <<sessVars, libVars, markVars, feeVars, now, students, attVars, msgVars, authVars, adminVars, pageVars, issueVars, idVars, examProcVars, teacherVars, enrolVars>>

DeleteNoticeStep ==
    /\ \E id \in NoticeIds : deleteNotice(id)
    /\ UNCHANGED <<sessVars, libVars, markVars, feeVars, now, students, attVars, msgVars, authVars, adminVars, pageVars, issueVars, idVars, examProcVars, teacherVars, enrolVars>>

TogglePinStep ==
    /\ \E id \in NoticeIds : togglePin(id)
    /\ UNCHANGED <<sessVars, libVars, markVars, feeVars, now, students, attVars, msgVars, authVars, adminVars, pageVars, issueVars, idVars, examProcVars, teacherVars, enrolVars>>

GetNoticesStep ==
    /\ \E u \in {"admin", "teacher1", "student1"},
          paging \in {<<1, NoNumber>>, <<2, 1>>, <<1, 0>>},
          q \in {<<Undefined, FALSE, FALSE>>, <<"Teachers", TRUE, FALSE>>,
                 <<Undefined, FALSE, TRUE>>} :
          getNotices(u, paging[1], paging[2], q[1], q[2], q[3])
    /\ UNCHANGED <<sessVars, libVars, markVars, feeVars, now, students, attVars, msgVars, authVars, adminVars, pageVars, issueVars, idVars, examProcVars, teacherVars, enrolVars>>

GetNoticeStep ==
    /\ \E u \in {"admin", "teacher1"}, id \in NoticeIds : getNotice(u, id)
    /\ UNCHANGED <<sessVars, libVars, markVars, feeVars, now, students, attVars, msgVars, authVars, adminVars, pageVars, issueVars, idVars, examProcVars, teacherVars, enrolVars>>

NextNotice ==
    \/ CreateNoticeStep
    \/ DeleteNoticeStep
    \/ TogglePinStep
    \/ TickStep
    \/ GetNoticesStep
    \/ GetNoticeStep

SpecNotice == Init /\ [][NextNotice]_vars

MarkAttendanceStep ==
    /\ \E u \in {"teacher1"}, c \in ClassIds, subj \in {Undefined, "subject1"},
          d \in Days, sq \in BOOLEAN :
          \E sts \in SUBSET StudentIds : \E data \in [sts -> AttendanceStatuses] :
              markAttendance(u, c, subj, d, data, sq)
    /\ UNCHANGED <<sessVars, libVars, markVars, feeVars, now, students, noticeVars, msgVars, authVars, adminVars, pageVars, issueVars, idVars, examProcVars, teacherVars, enrolVars>>

NextAttendanceMark ==
    \/ AttendanceCreateStep
    \/ TickStep
    \/ MarkAttendanceStep

SpecAttendanceMark == Init /\ [][NextAttendanceMark]_vars

SendMessageStep ==
    /\ \E u \in {"admin", "teacher1"}, id \in MessageIds,
          recipient \in {"admin", "teacher1", "ghost"},
          parent \in {NoParent} \cup MessageIds, us \in {Undefined, "session"} :
          sendMessage(u, id, recipient, parent, us)
    /\ UNCHANGED <<sessVars, libVars, markVars, feeVars, now, students, attVars, noticeVars, authVars, adminVars, pageVars, issueVars, idVars, examProcVars, teacherVars, enrolVars>>

ReplyMessageStep ==
    /\ \E u \in {"admin", "teacher1", "student1"}, id \in MessageIds,
          original \in MessageIds, us \in {Undefined, "session"} :
          replyMessage(u, id, original, us)
    /\ UNCHANGED <<sessVars, libVars, markVars, feeVars, now, students, attVars, noticeVars, authVars, adminVars, pageVars, issueVars, idVars, examProcVars, teacherVars, enrolVars>>

SendPlainMessageStep ==
    /\ \E id \in MessageIds, recipient \in {"admin", "teacher1"} :
          sendMessage("admin", id, recipient, NoParent, "session")
    /\ UNCHANGED <<sessVars, libVars, markVars, feeVars, now, students, attVars, noticeVars, authVars, adminVars, pageVars, issueVars, idVars, examProcVars, teacherVars, enrolVars>>

DeleteMessageStep ==
    /\ \E u \in {"admin", "teacher1", "student1"}, id \in MessageIds : deleteMessage(u, id)
    /\ UNCHANGED <<sessVars, libVars, markVars, feeVars, now, students, attVars, noticeVars, authVars, adminVars, pageVars, issueVars, idVars, examProcVars, teacherVars, enrolVars>>

NextMessageThread ==
    \/ SendMessageStep
    \/ ReplyMessageStep

NextMessageDelete ==
    \/ SendPlainMessageStep
    \/ DeleteMessageStep

SpecMessageThread == Init /\ [][NextMessageThread]_vars
SpecMessageDelete == Init /\ [][NextMessageDelete]_vars

ProtectedRequestStep ==
    /\ \E u \in {"admin", "teacher1", "student1", "ghost"}, token \in Tokens :
          protectedRequest(u, token)
    /\ UNCHANGED <<sessVars, libVars, markVars, feeVars, now, students, attVars, noticeVars, msgVars, adminVars, pageVars, issueVars, idVars, examProcVars, teacherVars, enrolVars>>

DeleteUserStep ==
    /\ \E token \in Tokens, target \in {"admin", "teacher1", "student1", "ghost"} :
          deleteUser("admin", token, target)
    /\ UNCHANGED <<sessVars, libVars, markVars, feeVars, now, students, attVars, noticeVars, msgVars, adminVars, pageVars, issueVars, idVars, examProcVars, teacherVars, enrolVars>>

UpdateUserStep ==
    /\ \E u \in {"admin", "teacher1", "student1"}, token \in {"valid"},
          target \in {"admin", "teacher1", "student1", "ghost"}, isActive \in BOOLEAN :
          updateUser(u, token, target, isActive)
    /\ UNCHANGED <<sessVars, libVars, markVars, feeVars, now, students, attVars, noticeVars, msgVars, adminVars, pageVars, issueVars, idVars, examProcVars, teacherVars, enrolVars>>

NextAuth ==
    \/ ProtectedRequestStep
    \/ DeleteUserStep
    \/ UpdateUserStep

SpecAuth == Init /\ [][NextAuth]_vars

DeleteStudentStep ==
    /\ \E st \in StudentIds : deleteStudent(st)
    /\ UNCHANGED <<sessVars, libVars, markVars, feeVars, now, attVars, noticeVars, msgVars,
                   authResp, classes, sections, subjects, teachers, exams, pageVars, issueVars, idVars, examProcVars, teacherVars, enrolVars>>

DeleteClassStep ==
    /\ \E classId \in ClassIds : deleteClass(classId)
    /\ UNCHANGED <<sessVars, libVars, markVars, feeVars, now, students, attVars, noticeVars,
                   msgVars, authVars, teachers, exams, pageVars, issueVars, idVars, examProcVars, teacherVars, enrolVars>>

DeleteSubjectStep ==
    /\ \E subjectId \in SubjectIds \cup {"subject9"} : deleteSubject("admin", subjectId)
    /\ UNCHANGED <<sessVars, libVars, markVars, feeVars, now, students, attVars, noticeVars,
                   msgVars, authVars, classes, sections, exams, pageVars, issueVars, idVars, examProcVars, teacherVars, enrolVars>>

EnterMarkStep ==
    /\ \E id \in MarkIds, m \in {3, 9}, absent \in BOOLEAN : ExamMarkSave(id, m, 8, 4, absent, TRUE)
    /\ adminResp' = [NoAdminResp EXCEPT !.op = "enterMark"]
    /\ UNCHANGED <<sessVars, libVars, feeVars, now, students, attVars, noticeVars, msgVars,
                   authVars, classes, sections, subjects, teachers, exams, pageVars, issueVars, idVars, examProcVars, teacherVars, enrolVars>>

CreateExamStep ==
    /\ \E id \in ExamIds, classId \in ClassIds, examDate \in Days,
          times \in {<<"9:00", "10:00">>, <<"10:00", "11:00">>, <<"10:00", "9:00">>},
          us \in {Undefined, "session"}, sq \in BOOLEAN :
          createExam("teacher1", id, classId, "subject1", examDate, times[1], times[2], 100, us, sq)
    /\ UNCHANGED <<sessVars, libVars, markVars, feeVars, now, students, attVars, noticeVars,
                   msgVars, authVars, classes, sections, subjects, teachers, pageVars, issueVars, idVars, examProcVars, teacherVars, enrolVars>>

UpdateExamStep ==
    /\ \E u \in {"admin", "teacher1"}, id \in ExamIds : updateExam(u, id)
    /\ UNCHANGED <<sessVars, libVars, markVars, feeVars, now, students, attVars, noticeVars,
                   msgVars, authVars, classes, sections, subjects, teachers, pageVars, issueVars, idVars, examProcVars, teacherVars, enrolVars>>

AdminTickStep ==
    /\ Tick
    /\ adminResp' = NoAdminResp
    /\ UNCHANGED <<sessVars, libVars, markVars, feeVars, students, attVars, noticeVars, msgVars,
                   authVars, classes, sections, subjects, teachers, exams, pageVars, issueVars, idVars, examProcVars, teacherVars, enrolVars>>

NextAdmin ==
    \/ DeleteStudentStep
    \/ DeleteClassStep
    \/ DeleteSubjectStep
    \/ EnterMarkStep
    \/ CreateExamStep
    \/ UpdateExamStep
    \/ AdminTickStep

SpecAdmin == Init /\ [][NextAdmin]_vars

CreateSubjectStep ==
    /\ \E id \in SubjectIds, code \in {"MATH", "ENG"}, totalMarks \in {NoNumber, 40, 50},
          teacher \in {Undefined, "teacher1"}, session \in {Undefined, "session"} :
          createSubject("admin", id, code, totalMarks, teacher, session)
    /\ UNCHANGED <<sessVars, libVars, markVars, feeVars, now, students, attVars, noticeVars,
                   msgVars, authVars, classes, sections, exams, pageVars, issueVars, idVars, examProcVars, teacherVars, enrolVars>>

UpdateSubjectStep ==
    /\ \E subjectId \in {"subject1", "subject3"}, code \in {Undefined, "MATH", "PHY"},
          totalMarks \in {NoNumber, 30, 50}, teacher \in {Undefined, "teacher1"},
          omitUndefined \in BOOLEAN :
          updateSubject("admin", subjectId, code, totalMarks, teacher, omitUndefined)
    /\ UNCHANGED <<sessVars, libVars, markVars, feeVars, now, students, attVars, noticeVars,
                   msgVars, authVars, classes, sections, exams, pageVars, issueVars, idVars, examProcVars, teacherVars, enrolVars>>

NextSubject ==
    \/ CreateSubjectStep
    \/ UpdateSubjectStep

SpecSubject == Init /\ [][NextSubject]_vars

ListPageStep ==
    /\ \E endpoint \in {"attendance", "library"}, total \in MatchCounts, page \in PageParams,
          limitParam \in LimitParams :
          listPage(endpoint, total, page, limitParam)
    /\ UNCHANGED <<sessVars, libVars, markVars, feeVars, now, students, attVars, noticeVars,
                   msgVars, authVars, adminVars, issueVars, idVars, examProcVars, teacherVars, enrolVars>>

NextPaging ==
    \/ ListPageStep

SpecPaging == Init /\ [][NextPaging]_vars

StockBookStep ==
    /\ \E b \in BookIds, isbn \in Isbns, t \in CopyInputs : addBook(b, isbn, t, "session")
    /\ UNCHANGED <<sessVars, markVars, feeVars, now, students, attVars, noticeVars, msgVars, authVars, adminVars, pageVars, issueVars, idVars, examProcVars, teacherVars, enrolVars>>

IssueBookLoadStep ==
    /\ \E p \in Procs, b \in BookIds : issueBookLoad(p, b)
    /\ UNCHANGED <<sessVars, markVars, feeVars, now, students, attVars, noticeVars, msgVars, authVars, adminVars, pageVars, libResp, idVars, examProcVars, teacherVars, enrolVars>>

IssueBookSaveStep ==
    /\ \E p \in Procs : issueBookSave(p)
    /\ UNCHANGED <<sessVars, markVars, feeVars, now, students, attVars, noticeVars, msgVars, authVars, adminVars, pageVars, libResp, idVars, examProcVars, teacherVars, enrolVars>>

NextIssueConc ==
    \/ StockBookStep
    \/ IssueBookLoadStep
    \/ IssueBookSaveStep

SpecIssueConc == Init /\ [][NextIssueConc]_vars

\* the payments receipted before the run, numbered 0001 onwards
InitIdGen ==
    /\ InitStores
    /\ \E n \in PriorReceipts : receiptNumbers = {[month |-> 0, digits |-> PadStart(k, ReceiptWidth)] : k \in 1..n}

SaveNewPaymentStep ==
    /\ idSaves < MaxNewIds
    /\ idSaves' = idSaves + 1
    /\ saveNewPayment(now)
    /\ UNCHANGED <<sessVars, libVars, markVars, feeVars, now, students, attVars, noticeVars, msgVars, authVars, adminVars, pageVars, issueVars, examProcVars, teacherVars, enrolVars>>

SaveWithoutIdStep ==
    /\ \E kind \in {"studentId", "employeeId"} : saveWithoutId(kind)
    /\ UNCHANGED idSaves
    /\ UNCHANGED <<sessVars, libVars, markVars, feeVars, now, students, attVars, noticeVars, msgVars, authVars, adminVars, pageVars, issueVars, examProcVars, teacherVars, enrolVars>>

IdTickStep ==
    /\ Tick
    /\ idResp' = [NoIdResp EXCEPT !.op = "tick"]
    /\ UNCHANGED <<sessVars, libVars, markVars, payments, feeStructures, feeResp, students, attVars, noticeVars, msgVars, authVars, adminVars, pageVars, issueVars, receiptNumbers, idSaves, examProcVars, teacherVars, enrolVars>>

NextIdGen ==
    \/ SaveNewPaymentStep
    \/ SaveWithoutIdStep
    \/ IdTickStep

SpecIdGen == InitIdGen /\ [][NextIdGen]_vars

CreateExamCheckStep ==
    /\ \E p \in Procs, classId \in ClassIds, examDate \in Days,
          times \in {<<"9:00", "10:00">>, <<"10:00", "11:00">>, <<"10:00", "9:00">>},
          us \in {Undefined, "session"}, sq \in BOOLEAN :
          createExamCheck(p, classId, examDate, times[1], times[2], us, sq)
    /\ UNCHANGED <<sessVars, libVars, markVars, feeVars, now, students, attVars, noticeVars,
                   msgVars, authVars, classes, sections, subjects, teachers, adminResp, pageVars, issueVars, idVars, teacherVars, enrolVars>>

CreateExamCreateStep ==
    /\ \E p \in Procs, id \in ExamIds : createExamCreate(p, id)
    /\ UNCHANGED <<sessVars, libVars, markVars, feeVars, now, students, attVars, noticeVars,
                   msgVars, authVars, classes, sections, subjects, teachers, adminResp, pageVars, issueVars, idVars, teacherVars, enrolVars>>

NextExamConc ==
    \/ CreateExamCheckStep
    \/ CreateExamCreateStep

SpecExamConc == Init /\ [][NextExamConc]_vars

MarkAttendanceAsStep ==
    /\ \E u \in {"teacher1", "student1", "parent1"}, c \in ClassIds, d \in Days, sq \in BOOLEAN :
          \E sts \in {{}, {"S1"}, {"S1", "S2"}} : \E data \in [sts -> {"Present"}] :
              markAttendance(u, c, Undefined, d, data, sq)
    /\ UNCHANGED <<sessVars, libVars, markVars, feeVars, now, students, noticeVars, msgVars, authVars, adminVars, pageVars, issueVars, idVars, examProcVars, teacherVars, enrolVars>>

UpdateAttendanceStep ==
    /\ \E u \in {"admin", "teacher1", "student1", "parent1"}, id \in AttendanceIds \cup {0},
          status \in AttendanceStatuses \cup {"Bogus"}, assigned \in BOOLEAN :
          updateAttendance(u, id, status, assigned)
    /\ UNCHANGED <<sessVars, libVars, markVars, feeVars, now, students, noticeVars, msgVars, authVars, adminVars, pageVars, issueVars, idVars, examProcVars, teacherVars, enrolVars>>

NextAttendanceRole ==
    \/ AttendanceCreateStep
    \/ MarkAttendanceAsStep
    \/ UpdateAttendanceStep

SpecAttendanceRole == Init /\ [][NextAttendanceRole]_vars

AssignClassStep ==
    /\ \E t \in TeacherRecords \cup {"T9"}, classId \in {"c1", "c9"},
          sectionId \in {Undefined, "secA", "secB"}, isClassTeacher \in BOOLEAN :
          assignClass(t, classId, sectionId, isClassTeacher)
    /\ UNCHANGED <<sessVars, libVars, markVars, feeVars, now, students, attVars, noticeVars, msgVars, authVars, adminVars, pageVars, issueVars, idVars, examProcVars, enrolVars>>

NextAssign ==
    \/ AssignClassStep

SpecAssign == Init /\ [][NextAssign]_vars

ToggleStarStep ==
    /\ \E u \in {"admin", "teacher1", "student1"}, id \in MessageIds : toggleStar(u, id)
    /\ UNCHANGED <<sessVars, libVars, markVars, feeVars, now, students, attVars, noticeVars, authVars, adminVars, pageVars, issueVars, idVars, examProcVars, teacherVars, enrolVars>>

SendRootMessageStep ==
    /\ \E u \in {"admin", "teacher1"}, id \in MessageIds, recipient \in {"admin", "teacher1", "ghost"} :
          sendMessage(u, id, recipient, NoParent, "session")
    /\ UNCHANGED <<sessVars, libVars, markVars, feeVars, now, students, attVars, noticeVars, authVars, adminVars, pageVars, issueVars, idVars, examProcVars, teacherVars, enrolVars>>

NextMessageStar ==
    \/ SendRootMessageStep
    \/ ToggleStarStep

SpecMessageStar == Init /\ [][NextMessageStar]_vars

CreateStudentStep ==
    /\ \E valid \in BOOLEAN, email \in Emails, admissionNumber \in AdmissionNumbers \cup {Undefined},
          classId \in {"c1", Undefined}, session \in {Undefined, "session"} :
          createStudent(valid, email, admissionNumber, classId, session)
    /\ UNCHANGED <<sessVars, libVars, markVars, feeVars, now, students, attVars, noticeVars, msgVars, authVars, adminVars, pageVars, issueVars, idVars, examProcVars, teacherVars>>

NextEnrol ==
    \/ CreateStudentStep

SpecEnrol == Init /\ [][NextEnrol]_vars

(***************************************************************************)
(* Properties                                                              *)
(***************************************************************************)

\* C4: after any sequence of completed Session create and update saves, at
\* most one Session record has isActive = true.
C4_AtMostOneActiveSession ==
    AllSavesCompleted => Cardinality(ActiveSessions(sessions)) <= 1

\* a second session was activated while another one was active, and the
\* save has completed
C4_Witness ==
    /\ AllSavesCompleted
    /\ Cardinality(ActiveSessions(sessions)) = 1
    /\ \E i \in SessionIds : sessions[i].exists /\ ~sessions[i].isActive
    /\ Cardinality({i \in SessionIds : sessions[i].exists}) = MaxSessions

\* C5: when two Session saves that each activate a different session run
\* concurrently, at most one Session has isActive = true once both saves
\* have completed, for every interleaving of their steps.
C5_AtMostOneActiveAfterConcurrentSaves ==
    AllSavesCompleted => Cardinality(ActiveSessions(sessions)) <= 1

\* C6: every Library record satisfies 0 <= availableCopies <= totalCopies,
\* and an issue request on a book with availableCopies = 0 is rejected and
\* leaves availableCopies at 0.
C6_CopiesWithinBounds ==
    /\ \A b \in BookIds : books[b].exists =>
          /\ 0 <= books[b].availableCopies
          /\ books[b].availableCopies <= books[b].totalCopies
    /\ (libResp.op = "issue" /\ libResp.status # 404 /\ libResp.availBefore = 0) =>
          /\ libResp.status = 400
          /\ books[libResp.book].availableCopies = 0

\* an issue request was rejected on a book that exists and has no copy left
C6_Witness ==
    /\ libResp.op = "issue"
    /\ libResp.status = 400
    /\ libResp.availBefore = 0
    /\ books[libResp.book].exists
    /\ books[libResp.book].totalCopies > 0

\* C7: every stored ExamMark has 0 <= percentage <= 100 and the grade the
\* threshold table assigns to its stored percentage; a save with
\* marksObtained > totalMarks never results in a stored record.
C7_PercentageAndGradeConsistent ==
    /\ \A i \in MarkIds : marks[i].exists =>
          /\ 0 <= marks[i].percentage
          /\ marks[i].percentage <= 100
          /\ marks[i].percentage >= 90 => marks[i].grade = "A+"
          /\ (marks[i].percentage >= 80 /\ marks[i].percentage < 90) => marks[i].grade = "A"
          /\ (marks[i].percentage >= 70 /\ marks[i].percentage < 80) => marks[i].grade = "B+"
          /\ (marks[i].percentage >= 60 /\ marks[i].percentage < 70) => marks[i].grade = "B"
          /\ (marks[i].percentage >= 50 /\ marks[i].percentage < 60) => marks[i].grade = "C+"
          /\ (marks[i].percentage >= 40 /\ marks[i].percentage < 50) => marks[i].grade = "C"
          /\ (marks[i].percentage >= 35 /\ marks[i].percentage < 40) => marks[i].grade = "D+"
          /\ (marks[i].percentage >= 30 /\ marks[i].percentage < 35) => marks[i].grade = "D"
          /\ marks[i].percentage < 30 => marks[i].grade = "F"
    /\ (markResp.op = "save" /\ markResp.aboveTotal) => ~markResp.stored

\* a full-marks record is stored and the last save, with marks above the
\* total, was turned down
C7_Witness ==
    /\ \E i \in MarkIds : marks[i].exists /\ marks[i].percentage = 100 /\ marks[i].grade = "A+"
    /\ markResp.op = "save"
    /\ markResp.aboveTotal
    /\ ~markResp.stored

C9_StatusMatchesRuleAtRead ==
    \A i \in PaymentIds : payments[i].exists =>
        payments[i].status =
            (CASE payments[i].paidAmount >= payments[i].dueAmount -> "Paid"
               [] payments[i].paidAmount < payments[i].dueAmount /\ payments[i].paidAmount > 0 -> "Partial"
               [] payments[i].paidAmount < payments[i].dueAmount /\ payments[i].paidAmount <= 0
                    /\ payments[i].dueDate # NoDate /\ now > payments[i].dueDate -> "Overdue"
               [] OTHER -> "Pending")

\* C9 as amended: the stored status equals the rule evaluated at the time
\* of the record's last save; the rule evaluated at the time of the read is
\* what the paymentStatus virtual returns.
C9_StatusMatchesRuleAtSave ==
    \A i \in PaymentIds : payments[i].exists =>
        /\ payments[i].status =
            (CASE payments[i].paidAmount >= payments[i].dueAmount -> "Paid"
               [] payments[i].paidAmount < payments[i].dueAmount /\ payments[i].paidAmount > 0 -> "Partial"
               [] payments[i].paidAmount < payments[i].dueAmount /\ payments[i].paidAmount <= 0
                    /\ payments[i].dueDate # NoDate
                    /\ payments[i].updatedAt > payments[i].dueDate -> "Overdue"
               [] OTHER -> "Pending")
        /\ paymentStatus(payments[i]) =
            (CASE payments[i].paidAmount >= payments[i].dueAmount -> "Paid"
               [] payments[i].paidAmount < payments[i].dueAmount /\ payments[i].paidAmount > 0 -> "Partial"
               [] payments[i].paidAmount < payments[i].dueAmount /\ payments[i].paidAmount <= 0
                    /\ payments[i].dueDate # NoDate /\ now > payments[i].dueDate -> "Overdue"
               [] OTHER -> "Pending")

\* an unpaid record saved before its due date is read after the due date:
\* the stored status is still Pending, the virtual says Overdue
C9_Witness ==
    \E i \in PaymentIds :
        /\ payments[i].exists
        /\ payments[i].paidAmount = 0
        /\ payments[i].dueAmount > 0
        /\ payments[i].dueDate # NoDate
        /\ payments[i].updatedAt <= payments[i].dueDate
        /\ now > payments[i].dueDate
        /\ payments[i].status = "Pending"
        /\ paymentStatus(payments[i]) = "Overdue"

\* C10: every FeePayment stored through the record-payment operation has
\* totalAmount = paidAmount + lateFee - discount; a payment of amount 1000
\* with no late fee or discount against a fee structure of amount 1000 is
\* stored with totalAmount = 1000 and status = Paid.
C10_RecordedPaymentTotals ==
    /\ (feeResp.op = "record" /\ feeResp.status = 201) =>
          /\ payments[feeResp.id].exists
          /\ payments[feeResp.id].totalAmount =
                payments[feeResp.id].paidAmount + payments[feeResp.id].lateFee
                    - payments[feeResp.id].discount
    /\ (/\ feeResp.op = "record"
        /\ feeResp.studentFound
        /\ feeResp.structureAmount = 1000
        /\ ~feeResp.alreadyPaid
        /\ feeResp.amount = 1000
        /\ feeResp.lateFee = NoNumber
        /\ feeResp.discount = NoNumber) =>
          /\ feeResp.status = 201
          /\ payments[feeResp.id].exists
          /\ payments[feeResp.id].totalAmount = 1000
          /\ payments[feeResp.id].status = "Paid"

\* C1: for every GET /attendance request made by a Student principal,
\* whatever query parameters are supplied, every returned Attendance record
\* has student equal to the Student profile linked to that principal.
C1_StudentSeesOwnAttendanceOnly ==
    (attResp.op = "list" /\ Role(attResp.user) = "Student") =>
        \A item \in attResp.items : students[item.student].user = attResp.user

\* C3: for every GET /fees/payments request made by a Student or Parent
\* principal, whatever filters are supplied, every returned FeePayment
\* belongs to the principal's own Student profile (Student) or to a student
\* whose parent is the principal (Parent).
C3_FeePaymentsWithinRoleScope ==
    (feeResp.op = "list" /\ Role(feeResp.user) \in {"Student", "Parent"}) =>
        \A item \in feeResp.items :
            \/ Role(feeResp.user) = "Student" /\ students[item.student].user = feeResp.user
            \/ Role(feeResp.user) = "Parent" /\ students[item.student].parent = feeResp.user

\* C2: a notice whose targetAudience is exactly {"Teachers"} is never
\* contained in the response to a GET /notices request made by a
\* Student-role principal, for any combination of query parameters.
C2_TeachersNoticeHiddenFromStudents ==
    (noticeResp.op = "list" /\ Role(noticeResp.user) = "Student") =>
        \A item \in noticeResp.items : item.targetAudience # {"Teachers"}

\* C11: once a Paid payment for a (student, feeType) pair is in the store,
\* every further record-payment request for the same student and feeType
\* (with the fee structure of the student's class in place) is rejected
\* with status 400 and stores no new FeePayment record.
C11_SecondPaymentRejected ==
    [][(/\ feeResp'.op = "record"
        /\ feeResp'.amount # NoNumber
        /\ feeResp'.studentFound
        /\ feeResp'.structureAmount # NoNumber
        /\ feeResp'.alreadyPaid) =>
            /\ feeResp'.status = 400
            /\ payments' = payments]_vars

\* C12: a valid POST /attendance/mark for a class and date with no prior
\* marking returns 201 and creates exactly one Attendance record per
\* attendanceData entry; every resubmission for the same class and date is
\* rejected with status 400 and creates no Attendance record.
C12_MarkAttendanceOnce ==
    [][attResp'.op = "mark" =>
        /\ (attResp'.wellFormed /\ attResp'.requested > 0 /\ ~attResp'.priorMarking) =>
              /\ attResp'.status = 201
              /\ Cardinality({i \in AttendanceIds : attendance'[i].exists})
                    = Cardinality({i \in AttendanceIds : attendance[i].exists})
                        + attResp'.requested
        /\ attResp'.priorMarking =>
              /\ attResp'.status = 400
              /\ attendance' = attendance]_vars

\* the root of the reply chain a stored message belongs to
RECURSIVE ChainRoot(_)
ChainRoot(i) ==
    IF messages[i].parentMessage = NoParent THEN i ELSE ChainRoot(messages[i].parentMessage)

\* C13: for every stored message, a message sent without a parent has
\* threadId equal to its own id and a reply has threadId equal to its
\* parent's threadId; hence every message of a reply chain carries the id of
\* the chain's root message as threadId.
C13_ThreadIdIsChainRoot ==
    \A i \in MessageIds : messages[i].exists =>
        /\ messages[i].parentMessage = NoParent => messages[i].threadId = i
        /\ messages[i].parentMessage # NoParent =>
              /\ messages[messages[i].parentMessage].exists
              /\ messages[i].threadId = messages[messages[i].parentMessage].threadId
        /\ messages[i].threadId = ChainRoot(i)

\* a reply to a reply is stored, once through replyMessage and once through
\* sendMessage with a parentMessage
C13_Witness ==
    \E i \in MessageIds :
        /\ messages[i].exists
        /\ messages[i].parentMessage # NoParent
        /\ messages[messages[i].parentMessage].parentMessage # NoParent
        /\ messages[i].threadId = ChainRoot(i)
        /\ msgResp.op = "send"
        /\ msgResp.status = 201
        /\ msgResp.id = i

\* C14: a message is marked globally deleted (isDeleted) if and only if
\* both its sender and its recipient have soft-deleted it, and only a
\* participant is ever in the deleted-by list.
C14_DeletedIffBothDeleted ==
    \A i \in MessageIds : messages[i].exists =>
        /\ messages[i].isDeleted <=> (/\ messages[i].sender \in messages[i].deletedBy
                                      /\ messages[i].recipient \in messages[i].deletedBy)
        /\ messages[i].deletedBy \subseteq {messages[i].sender, messages[i].recipient}

\* C15: once a user's isActive flag is false, every request to a protected
\* route that carries that user's still-unexpired token is rejected with
\* 401 and never reaches the route handler, for as long as the flag stays
\* false.
C15_InactiveUserRejected ==
    [][(/\ authResp'.user \in Users
        /\ authResp'.token = "valid"
        /\ ~userActive[authResp'.user]) =>
            /\ authResp'.status = 401
            /\ ~authResp'.reachedHandler
            /\ userActive' = userActive]_vars

\* a deactivated user's request with a token that still verifies was
\* answered 401
C15_Witness ==
    /\ authResp.op = "request"
    /\ authResp.user \in Users
    /\ Role(authResp.user) # "Admin"
    /\ authResp.token = "valid"
    /\ ~userActive[authResp.user]
    /\ authResp.status = 401
    /\ ~authResp.reachedHandler

\* C16: GET /notices without pinnedOnly returns a notice to a principal if
\* and only if the notice is published, active, has publishDate <= now, is
\* not expired (unless includeExpired is requested), has a targetAudience
\* containing "All" or the audience value naming the principal's role, and,
\* for a Student, has empty targetClasses or targetClasses containing the
\* student's class.  Stated for the first page with the default limit,
\* which holds every notice of the store.
C16_ListedIffVisible ==
    [][(/\ noticeResp'.op = "list"
        /\ ~noticeResp'.pinnedOnly
        /\ noticeResp'.page = 1
        /\ noticeResp'.limit = NoNumber
        /\ now' = now
        /\ notices' = notices) =>
            LET u == noticeResp'.user
                audience == CASE Role(u) = "Student" -> "Students"
                              [] Role(u) = "Teacher" -> "Teachers"
                              [] Role(u) = "Parent" -> "Parents"
                              [] OTHER -> "Admin"
            IN \A i \in NoticeIds :
                  ([id |-> i, targetAudience |-> notices[i].targetAudience] \in noticeResp'.items)
                  <=> (/\ notices[i].exists
                       /\ notices[i].isPublished
                       /\ notices[i].isActive
                       /\ notices[i].publishDate <= now
                       /\ noticeResp'.includeExpired \/ notices[i].expiryDate = NoDate
                             \/ notices[i].expiryDate > now
                       /\ "All" \in notices[i].targetAudience
                             \/ audience \in notices[i].targetAudience
                       /\ Role(u) = "Student" =>
                             \/ notices[i].targetClasses = {}
                             \/ notices[i].targetClasses \cap UserClasses(u) # {})]_vars

\* C17: GET /notices/:id returns a notice to a non-Admin principal only if
\* the notice is published, active, has publishDate <= now, is not expired
\* and has a targetAudience containing "All" or the principal's role; for
\* every other existing notice the response is 404.
C17_GetNoticeOnlyIfVisible ==
    [][(/\ noticeResp'.op = "get"
        /\ Role(noticeResp'.user) # "Admin"
        /\ now' = now) =>
            LET u == noticeResp'.user
                audience == CASE Role(u) = "Student" -> "Students"
                              [] Role(u) = "Teacher" -> "Teachers"
                              [] OTHER -> "Parents"
            IN \A i \in NoticeIds :
                  (/\ notices[i].exists
                   /\ ~(/\ notices[i].isPublished
                        /\ notices[i].isActive
                        /\ notices[i].publishDate <= now
                        /\ notices[i].expiryDate = NoDate \/ notices[i].expiryDate > now
                        /\ "All" \in notices[i].targetAudience
                              \/ audience \in notices[i].targetAudience
                              \/ Role(u) \in notices[i].targetAudience))
                  => (/\ [id |-> i, targetAudience |-> notices[i].targetAudience]
                             \notin noticeResp'.items
                      /\ noticeResp'.status = 404)]_vars

\* C18: after a successful DELETE /classes/:id no Section record and no
\* Student record of any status references the deleted class.
C18_NoReferenceToDeletedClass ==
    [][(adminResp'.op = "deleteClass" /\ adminResp'.status = 200) =>
            /\ \A sec \in SectionIds :
                  sections'[sec].exists => sections'[sec].class # adminResp'.target
            /\ \A st \in StudentIds : students'[st].class # adminResp'.target]_vars

\* C19: a delete request for a Subject referenced by at least one Exam or
\* ExamMark is rejected with an error reporting the exam and mark counts
\* and leaves the subjects and every teacher's assignedSubjects unchanged;
\* a delete request for a Class with at least one Active student is
\* rejected reporting the count and removes no Section.
C19_BlockedDeleteChangesNothing ==
    [][/\ (/\ adminResp'.op = "deleteSubject"
           /\ adminResp'.target \in SubjectIds
           /\ \/ \E i \in ExamIds : exams[i].exists /\ exams[i].subject = adminResp'.target
              \/ \E id \in MarkIds : marks[id].exists /\ MarkSubject(id) = adminResp'.target) =>
               /\ adminResp'.status = 400
               /\ adminResp'.hasExams =
                     Cardinality({i \in ExamIds :
                                     exams[i].exists /\ exams[i].subject = adminResp'.target})
               /\ adminResp'.hasMarks =
                     Cardinality({id \in MarkIds :
                                     marks[id].exists /\ MarkSubject(id) = adminResp'.target})
               /\ subjects' = subjects
               /\ teachers' = teachers
       /\ (/\ adminResp'.op = "deleteClass"
           /\ adminResp'.target \in classes
           /\ \E st \in StudentIds :
                 students[st].class = adminResp'.target /\ students[st].status = "Active") =>
               /\ adminResp'.status = 400
               /\ adminResp'.activeStudents =
                     Cardinality({st \in StudentIds :
                                     /\ students[st].class = adminResp'.target
                                     /\ students[st].status = "Active"})
               /\ sections' = sections
               /\ classes' = classes]_vars

\* a subject with a mark entry and an assigned teacher was asked to be
\* deleted and the request was rejected with the counts
C19_Witness ==
    /\ adminResp.op = "deleteSubject"
    /\ adminResp.status = 400
    /\ adminResp.hasMarks = 1
    /\ adminResp.hasExams = 0
    /\ \E id \in MarkIds : marks[id].exists /\ MarkSubject(id) = adminResp.target
    /\ \E t \in TeacherUsers : adminResp.target \in teachers[t]

\* C21: after any sequence of Subject create and update operations every
\* stored Subject has passingMarks < totalMarks; a write that would make
\* passingMarks >= totalMarks is rejected and changes nothing.
C21_PassingBelowTotal ==
    [][/\ \A sub \in SubjectIds :
             (subjects'[sub].exists /\ subjects'[sub].totalMarks # NoNumber) =>
                 subjects'[sub].passingMarks < subjects'[sub].totalMarks
       /\ \A sub \in SubjectIds :
             (/\ adminResp'.target = sub
              /\ adminResp'.totalMarks # NoNumber
              /\ (IF subjects[sub].exists THEN subjects[sub].passingMarks ELSE 40)
                    >= adminResp'.totalMarks) =>
                 /\ adminResp'.status >= 400
                 /\ subjects' = subjects
                 /\ teachers' = teachers]_vars

\* C22: for every list endpoint and every value of the limit parameter a
\* single response contains at most 100 items; with no limit supplied it
\* contains at most 10, and pagination.pages = ceil(total / limit) for the
\* limit actually applied.
C22_PageSizeCapped ==
    pageResp.op = "list" =>
        /\ pageResp.items <= 100
        /\ pageResp.limitParam = NoNumber => pageResp.items <= DefaultLimit
        /\ pageResp.pages * pageResp.limit >= pageResp.total
        /\ (pageResp.pages - 1) * pageResp.limit < pageResp.total \/ pageResp.total = 0

\* C25: a Session save that is rejected because endDate <= startDate
\* changes no stored state: the session itself is not written and no other
\* session's isActive flag is changed, also when the rejected save had
\* isActive = true.  With saves run one at a time, no step of such a save
\* changes the Session collection.
C25_RejectedSaveChangesNothing ==
    [][(\E p \in Procs :
            /\ sessProc[p].pc # "idle"
            /\ sessProc[p].endDate <= sessProc[p].startDate) =>
                sessions' = sessions]_vars

\* C24: for every interleaving of concurrent issue requests on one book the
\* number of issue requests that succeed never exceeds the book's
\* availableCopies before those requests started (the totalCopies it was
\* stocked with), and once no request is between its read and its write
\* availableCopies equals that value minus the number of successful issues.
C24_ConcurrentIssuesCounted ==
    \A b \in BookIds :
        books[b].exists =>
            LET succeeded == Cardinality({p \in Procs :
                                 /\ issueProc[p].pc = "done"
                                 /\ issueProc[p].book = b
                                 /\ issueProc[p].status = 200})
            IN /\ succeeded <= books[b].totalCopies
               /\ (\A p \in Procs : issueProc[p].pc # "loaded") =>
                     books[b].availableCopies = books[b].totalCopies - succeeded

\* C26: without concurrent creations every generated receipt number is new:
\* it is above every number stored under its month prefix, follows the
\* highest of them directly, and is not among the stored ones.
C26_GeneratedIdIsNext ==
    [][(idResp'.op = "save" /\ idResp'.generated # NoDigits) =>
          LET stored == {r.digits : r \in {x \in receiptNumbers : x.month = idResp'.month}}
              n == ParseInt(idResp'.generated)
          IN /\ idResp'.generated \notin stored
             /\ \A ds \in stored : ParseInt(ds) < n
             /\ n = 1 \/ PadStart(n - 1, ReceiptWidth) \in stored]_vars

\* C23: when two concurrent create-exam requests for the same class and date
\* with overlapping time windows have both passed the conflict check and
\* both completed, both succeeded and the store holds two non-cancelled
\* exams of that class whose windows overlap.
C23_ConcurrentCreatesDoubleBook ==
    \A p \in Procs : \A q \in Procs :
        (/\ p # q
         /\ examProc[p].pc = "done" /\ examProc[p].status # 400
         /\ examProc[q].pc = "done" /\ examProc[q].status # 400
         /\ examProc[p].class = examProc[q].class
         /\ examProc[p].examDate = examProc[q].examDate
         /\ StringRank(examProc[p].startTime) <= StringRank(examProc[q].endTime)
         /\ StringRank(examProc[q].startTime) <= StringRank(examProc[p].endTime)) =>
            /\ examProc[p].status = 201
            /\ examProc[q].status = 201
            /\ \E i \in ExamIds : \E j \in ExamIds :
                  /\ i # j
                  /\ exams[i].exists /\ exams[j].exists
                  /\ exams[i].class = examProc[p].class /\ exams[j].class = examProc[p].class
                  /\ exams[i].status # "Cancelled" /\ exams[j].status # "Cancelled"
                  /\ StringRank(exams[i].startTime) <= StringRank(exams[j].endTime)
                  /\ StringRank(exams[j].startTime) <= StringRank(exams[i].endTime)

\* C27: a mark or update request made by a Student or Parent principal is
\* refused and leaves the Attendance collection as it was.
C27_OnlyStaffWriteAttendance ==
    [][(/\ attResp'.op \in {"mark", "update"}
        /\ Role(attResp'.user) \in {"Student", "Parent"}) =>
            /\ attResp'.status >= 400
            /\ attendance' = attendance]_vars

\* C28: after any sequence of assign-class operations, for each class at
\* most one Teacher record holds an assignedClasses entry for that class
\* with isClassTeacher = true.
C28_OneClassTeacherPerClass ==
    \A c \in ClassIds :
        Cardinality({t \in TeacherRecords :
                        \E i \in 1..Len(assignedClasses[t]) :
                            /\ assignedClasses[t][i].class = c
                            /\ assignedClasses[t][i].isClassTeacher}) <= 1

\* C29: a toggle-star request changes the starred list of no principal other
\* than the one who made it.
C29_StarScopedToActor ==
    [][msgResp'.op = "star" =>
          \A v \in Users : v # msgResp'.user => StarredIn(messages', v) = StarredIn(messages, v)]_vars

\* C30: a create-student request that does not end in 201 leaves the User
\* and Student collections as they were, and no request creates a User
\* without creating the Student of that User.
C30_FailedCreateStudentChangesNothing ==
    [][/\ (enrolResp'.op = "createStudent" /\ enrolResp'.status # 201) =>
              /\ userAccounts' = userAccounts
              /\ studentRecords' = studentRecords
       /\ \A e \in userAccounts' \ userAccounts :
              \E st \in studentRecords' \ studentRecords : st.user = e]_vars

=============================================================================
